---- MODULE Spec2Model ----
(***************************************************************************)
(* Model of the generated-code pipeline of smart_csv_assistant:            *)
(*   utils/code_validator.py      validate_code, validate_execution_results*)
(*   utils/data_utils.py          analyze_query_relevance                  *)
(*   core/code_executor.py        execute_generated_code                   *)
(*   components/results_display.py calculate_quality_score                 *)
(*   app.py                       main (code review / execute workflow)    *)
(* Each component has its own specification over the shared variables; a   *)
(* specification leaves the variables of the other components unchanged.   *)
(***************************************************************************)
EXTENDS Integers, Sequences, FiniteSets, TLC

VARIABLES
    \* ---- result contract validator and quality scorer (SpecResults)
    result, metrics, summary_text, insights,   \* the four artifacts
    verdict,                                   \* validate_execution_results' return value, or NoValue
    scores,                                    \* the values calculate_quality_score returned so far
    \* ---- sandboxed executor (SpecExecutor, SpecThreads)
    sys_stdout,                                \* sys.stdout: the id of the current output stream
    streams,                                   \* stream id -> the chunks written to it
    nbuf,                                      \* number of io.StringIO buffers created so far
    pc,                                        \* thread -> position in execute_generated_code
    old_stdout, captured_output, local_vars,   \* thread -> the locals of the call
    pending,                                   \* thread -> exception in flight, or NoValue
    retval,                                    \* thread -> value being returned, or NoValue
    outcome,                                   \* thread -> what the caller got from the last call
    entry_stdout, code_error, written,         \* history: stream at entry, error the code raised,
                                               \* chunks the call's code printed
    lookup,                                    \* thread -> the last name lookup its code made
    table_objects,                             \* the caller's dataframes_dict: name -> table
    \* ---- static validator and application workflow (SpecApp)
    llm_code, dataframes, generated_code, validation_issues, executed, ui,
    \* ---- relevance selector (SpecRelevance)
    query, tables, relevant_dfs,
    \* ---- error view (SpecError)
    error,                                     \* the exception handed to render_error
    suggestions,                               \* the suggestions render_error showed, or NoValue
    \* ---- session: sidebar and main (SpecSession)
    uploaded_files,                            \* the files in the uploader
    st_dataframes,                             \* st.session_state.dataframes: the table names, in
                                               \* insertion order
    dataframes_loaded, num_files,              \* st.session_state fields of the same names
    st_generated_code,                         \* st.session_state.generated_code, or NoValue
    calls                                      \* history: the executor calls made so far

resultsVars == <<result, metrics, summary_text, insights, verdict, scores>>
execVars == <<sys_stdout, streams, nbuf, pc, old_stdout, captured_output, local_vars,
              pending, retval, outcome, entry_stdout, code_error, written, lookup,
              table_objects>>
appVars == <<llm_code, dataframes, generated_code, validation_issues, executed, ui>>
relVars == <<query, tables, relevant_dfs>>
sessionVars == <<error, suggestions, uploaded_files, st_dataframes, dataframes_loaded,
                 num_files, st_generated_code, calls>>
vars == <<resultsVars, execVars, appVars, relVars, sessionVars>>

NoValue == [type |-> "novalue"]

(***************************************************************************)
(* Generic helpers.                                                        *)
(***************************************************************************)
Min(a, b) == IF a <= b THEN a ELSE b

BoundedSeq(S, n) == UNION {[1..k -> S] : k \in 0..n}

\* set(s)
Range(s) == {s[k] : k \in DOMAIN s}

\* [s[i] for i in range(len(s)) if i in keep], order kept
RECURSIVE SelectFrom(_, _, _)
SelectFrom(s, keep, i) ==
    IF i > Len(s) THEN <<>>
    ELSE (IF i \in keep THEN <<s[i]>> ELSE <<>>) \o SelectFrom(s, keep, i + 1)

(***************************************************************************)
(* Python values the generated code can bind to the four identifiers.      *)
(*   none                      None                                        *)
(*   df   rows, cols           pandas DataFrame                            *)
(*   series rows               pandas Series                               *)
(*   list items                list (of insight strings, or any items)     *)
(*   dict vals                 dict; key i is the i-th inserted key, vals[i]*)
(*                             is "num" or "null" (None)                   *)
(*   str  len, blank           string of len characters; blank: every      *)
(*                             character is whitespace                     *)
(*   int  val                  a number (no __len__)                       *)
(* An insight string is a sequence of characters.                          *)
(***************************************************************************)
PyNone == [type |-> "none"]
PyDataFrame(rows, cols) == [type |-> "df", rows |-> rows, cols |-> cols]
PySeries(rows) == [type |-> "series", rows |-> rows]
PyList(items) == [type |-> "list", items |-> items]
PyDict(vals) == [type |-> "dict", vals |-> vals]
PyStr(n, blank) == [type |-> "str", len |-> n, blank |-> blank]
PyInt(n) == [type |-> "int", val |-> n]

\* hasattr(v, '__len__')
HasLen(v) == v.type \in {"df", "series", "list", "dict", "str"}

\* len(v), for a value with __len__
PyLen(v) ==
    CASE v.type \in {"df", "series"} -> v.rows
      [] v.type = "list" -> Len(v.items)
      [] v.type = "dict" -> Len(v.vals)
      [] v.type = "str" -> v.len
      [] OTHER -> 0

\* bool(v), for a value whose truth value is defined (a DataFrame's or a
\* Series' is not)
Truthy(v) ==
    CASE v.type = "none" -> FALSE
      [] v.type = "int" -> v.val # 0
      [] OTHER -> PyLen(v) > 0

Digits == {"0", "1", "2", "3", "4", "5", "6", "7", "8", "9"}

\* any(char.isdigit() for char in str(insight))
ContainsDigit(insight) == \E i \in 1..Len(insight) : insight[i] \in Digits

(***************************************************************************)
(* utils/code_validator.py: validate_execution_results                     *)
(* An issue is [mark, text, arg]: mark "cross" is the source's hard marker *)
(* (the issues appended together with is_valid = False), mark "warning"    *)
(* its soft marker; arg holds the numbers or keys the message is formatted *)
(* with.                                                                   *)
(***************************************************************************)
Issue(mark, text, arg) == [mark |-> mark, text |-> text, arg |-> arg]

\* Each check yields [issues, invalid]: the issues it appends and whether it
\* sets is_valid = False.
Check(issues, invalid) == [issues |-> issues, invalid |-> invalid]

\* lines 171-176
CheckResult(r) ==
    IF r.type = "none"
    THEN Check(<<Issue("cross", "Result is None", <<>>)>>, TRUE)
    ELSE IF HasLen(r) /\ PyLen(r) = 0
    THEN Check(<<Issue("warning", "Result is empty", <<>>)>>, FALSE)
    ELSE Check(<<>>, FALSE)

\* CheckMetricsCount with `if` in place of `elif`: an empty mapping gets the
\* count warning too.
CheckMetricsCount_IfNotElif(m) ==
    Check((IF ~Truthy(m)
           THEN <<Issue("cross", "Metrics dictionary is empty", <<>>)>> ELSE <<>>)
          \o (IF PyLen(m) < 5
              THEN <<Issue("warning", "Only n metrics provided", <<PyLen(m)>>)>> ELSE <<>>),
          ~Truthy(m))

\* lines 178-183
CheckMetricsCount(m) ==
    IF ~Truthy(m)
    THEN Check(<<Issue("cross", "Metrics dictionary is empty", <<>>)>>, TRUE)
    ELSE IF PyLen(m) < 5
    THEN Check(<<Issue("warning", "Only n metrics provided", <<PyLen(m)>>)>>, FALSE)
    ELSE Check(<<>>, FALSE)

\* NoneMetrics stopping at the first key whose value is None.
NoneMetrics_FirstOnly(m) ==
    IF \E i \in 1..Len(m.vals) : m.vals[i] = "null"
    THEN <<CHOOSE i \in 1..Len(m.vals) :
               m.vals[i] = "null" /\ \A j \in 1..(i - 1) : m.vals[j] # "null">>
    ELSE <<>>

\* [k for k, v in metrics.items() if v is None]
NoneMetrics(m) == SelectFrom([i \in 1..Len(m.vals) |-> i],
                             {i \in 1..Len(m.vals) : m.vals[i] = "null"}, 1)

\* lines 185-189
CheckMetricsNone(m) ==
    IF Truthy(m) /\ NoneMetrics(m) # <<>>
    THEN Check(<<Issue("warning", "Metrics contain None values", NoneMetrics(m))>>, FALSE)
    ELSE Check(<<>>, FALSE)

\* CheckSummary without the strip() test: a whitespace-only summary passes.
CheckSummary_NoStrip(s) ==
    IF ~Truthy(s)
    THEN Check(<<Issue("cross", "Summary text is empty", <<>>)>>, TRUE)
    ELSE IF PyLen(s) < 50
    THEN Check(<<Issue("warning", "Summary text is very short", <<>>)>>, FALSE)
    ELSE Check(<<>>, FALSE)

\* lines 191-196: not summary_text or summary_text.strip() == ""
CheckSummary(s) ==
    IF ~Truthy(s) \/ s.blank
    THEN Check(<<Issue("cross", "Summary text is empty", <<>>)>>, TRUE)
    ELSE IF PyLen(s) < 50
    THEN Check(<<Issue("warning", "Summary text is very short", <<>>)>>, FALSE)
    ELSE Check(<<>>, FALSE)

\* lines 198-203
CheckInsightsCount(i) ==
    IF ~Truthy(i)
    THEN Check(<<Issue("cross", "Insights list is empty", <<>>)>>, TRUE)
    ELSE IF PyLen(i) < 5
    THEN Check(<<Issue("warning", "Only n insights provided", <<PyLen(i)>>)>>, FALSE)
    ELSE Check(<<>>, FALSE)

\* sum(1 for insight in insights if any(char.isdigit() for char in str(insight)))
InsightsWithNumbers(i) ==
    Cardinality({k \in 1..Len(i.items) : ContainsDigit(i.items[k])})

\* CheckInsightsNumbers with <= in place of <: exactly 60% is reported too.
CheckInsightsNumbers_AtMost(i) ==
    IF Truthy(i) /\ 10 * InsightsWithNumbers(i) <= 6 * PyLen(i)
    THEN Check(<<Issue("warning", "Many insights lack specific numbers", <<>>)>>, FALSE)
    ELSE Check(<<>>, FALSE)

\* lines 205-209: insights_with_numbers < len(insights) * 0.6, in tenths
CheckInsightsNumbers(i) ==
    IF Truthy(i) /\ 10 * InsightsWithNumbers(i) < 6 * PyLen(i)
    THEN Check(<<Issue("warning", "Many insights lack specific numbers", <<>>)>>, FALSE)
    ELSE Check(<<>>, FALSE)

\* The statements of validate_execution_results that raise on a value of a
\* type the contract does not foresee, in the order they run: bool() of a
\* DataFrame (ValueError), len() of a number (TypeError), .items() of a
\* non-dict and .strip() of a non-string (AttributeError).
PyError(cls, base) == [cls |-> cls, base |-> base]

MetricsError(m) ==
    CASE m.type \in {"df", "series"} -> "ValueError"
      [] m.type = "int" /\ Truthy(m) -> "TypeError"
      [] m.type \in {"list", "str"} /\ Truthy(m) -> "AttributeError"
      [] OTHER -> "none"

SummaryError(s) ==
    CASE s.type \in {"df", "series"} -> "ValueError"
      [] s.type \in {"int", "list", "dict"} /\ Truthy(s) -> "AttributeError"
      [] OTHER -> "none"

InsightsError(i) ==
    CASE i.type \in {"df", "series"} -> "ValueError"
      [] i.type = "int" /\ Truthy(i) -> "TypeError"
      [] OTHER -> "none"

ValidationError(r, m, s, i) ==
    CASE MetricsError(m) # "none" -> MetricsError(m)
      [] SummaryError(s) # "none" -> SummaryError(s)
      [] InsightsError(i) # "none" -> InsightsError(i)
      [] OTHER -> "none"

ValidationRaises(r, m, s, i) == ValidationError(r, m, s, i) # "none"

\* The checks in the order the source runs them.
ResultChecks(r, m, s, i) ==
    <<CheckResult(r), CheckMetricsCount(m), CheckMetricsNone(m),
      CheckSummary(s), CheckInsightsCount(i), CheckInsightsNumbers(i)>>

RECURSIVE ConcatIssues(_)
ConcatIssues(checks) ==
    IF checks = <<>> THEN <<>>
    ELSE Head(checks).issues \o ConcatIssues(Tail(checks))

\* lines 155-211: returns (is_valid, issues), or raises
validate_execution_results(r, m, s, i) ==
    IF ValidationRaises(r, m, s, i)
    THEN [raised |-> TRUE, error |-> PyError(ValidationError(r, m, s, i), "Exception"),
          is_valid |-> FALSE, issues |-> <<>>]
    ELSE LET checks == ResultChecks(r, m, s, i)
         IN  [raised |-> FALSE, error |-> NoValue,
              is_valid |-> \A k \in 1..Len(checks) : ~checks[k].invalid,
              issues |-> ConcatIssues(checks)]

(***************************************************************************)
(* components/results_display.py: calculate_quality_score                  *)
(* The summary term len(summary_text) / 5 is a float; the score is kept in *)
(* fifths of a point until int() truncates it.                             *)
(***************************************************************************)
\* MetricsPoints giving the full 30 points to any non-empty mapping.
MetricsPoints_FlatThirty(m) == IF Truthy(m) THEN 30 ELSE 0

\* lines 188-194
MetricsPoints(m) ==
    IF Truthy(m)
    THEN IF PyLen(m) >= 5 THEN 30 ELSE PyLen(m) * 6
    ELSE 0

\* InsightsPoints with the bonus given for every insight, digit or not.
InsightsPoints_BonusForAll(i) ==
    IF Truthy(i)
    THEN (IF PyLen(i) >= 5 THEN 20 ELSE PyLen(i) * 4) + Min(10, PyLen(i) * 2)
    ELSE 0

\* lines 196-206
InsightsPoints(i) ==
    IF Truthy(i)
    THEN (IF PyLen(i) >= 5 THEN 20 ELSE PyLen(i) * 4)
         + Min(10, InsightsWithNumbers(i) * 2)
    ELSE 0

\* lines 208-213, in fifths of a point
SummaryFifths(s) ==
    IF Truthy(s)
    THEN IF PyLen(s) >= 100 THEN 20 * 5 ELSE PyLen(s)
    ELSE 0

\* ResultPoints telling results apart by hasattr(result, '__len__') and
\* len(result), as validate_execution_results does, not by isinstance.
ResultPoints_BySize(r) ==
    IF r.type # "none"
    THEN IF HasLen(r)
         THEN IF PyLen(r) > 0
              THEN 15 + (IF r.type = "df" /\ r.cols > 1 THEN 5 ELSE 0)
              ELSE 5
         ELSE 10
    ELSE 0

\* lines 215-226
ResultPoints(r) ==
    IF r.type # "none"
    THEN IF r.type = "df"
         THEN IF PyLen(r) > 0
              THEN 15 + (IF r.cols > 1 THEN 5 ELSE 0)
              ELSE 5
         ELSE 10
    ELSE 0

\* calculate_quality_score with none of the caps: every metric, insight and
\* character counts.
calculate_quality_score_Uncapped(m, i, s, r) ==
    (5 * ((IF Truthy(m) THEN PyLen(m) * 6 ELSE 0)
          + (IF Truthy(i) THEN PyLen(i) * 4 + InsightsWithNumbers(i) * 2 ELSE 0)
          + ResultPoints(r))
     + (IF Truthy(s) THEN PyLen(s) ELSE 0)) \div 5

\* lines 180-228: min(100, int(score))
calculate_quality_score(m, i, s, r) ==
    Min(100, (5 * (MetricsPoints(m) + InsightsPoints(i) + ResultPoints(r))
              + SummaryFifths(s)) \div 5)

(***************************************************************************)
(* SpecResults: the validator and the scorer applied to artifacts drawn    *)
(* from bounded sets of contract-typed values.                             *)
(***************************************************************************)
MaxMetrics == 5
MaxInsights == 5

PlainInsight == <<"u", "p">>
DigitInsight == <<"u", "p", " ", "7", "%">>

ResultInputs ==
    {PyNone, PyInt(7), PyList(<<>>), PyList(<<PlainInsight>>), PySeries(0), PySeries(2),
     PyDataFrame(0, 2), PyDataFrame(2, 1), PyDataFrame(2, 2)}
MetricsInputs == {PyDict(v) : v \in BoundedSeq({"num", "null"}, MaxMetrics)}
SummaryInputs ==
    {PyStr(n, FALSE) : n \in {1, 49, 50, 99, 100, 120}}
    \cup {PyStr(n, TRUE) : n \in {0, 3, 100}}
\* k insights of one kind followed by j of the other, k + j <= MaxInsights
InsightsInputs ==
    {PyList([n \in 1..(k + j) |-> IF n <= k THEN first ELSE second]) :
        <<k, j, first, second>> \in
            {q \in (0..MaxInsights) \X (0..MaxInsights)
                    \X {PlainInsight, DigitInsight} \X {PlainInsight, DigitInsight} :
                q[1] + q[2] <= MaxInsights /\ q[3] # q[4]}}

ExecIdle ==
    /\ sys_stdout = 0 /\ streams = <<>> /\ nbuf = 0
    /\ pc = <<>> /\ old_stdout = <<>> /\ captured_output = <<>> /\ local_vars = <<>>
    /\ pending = <<>> /\ retval = <<>> /\ outcome = <<>>
    /\ entry_stdout = <<>> /\ code_error = <<>> /\ written = <<>> /\ lookup = <<>>
    /\ table_objects = <<>>
AppIdle ==
    /\ llm_code = <<>> /\ dataframes = <<>> /\ generated_code = NoValue /\ validation_issues = <<>>
    /\ executed = NoValue /\ ui = "idle"
RelIdle == query = <<>> /\ tables = <<>> /\ relevant_dfs = NoValue
SessionIdle ==
    /\ error = NoValue /\ suggestions = NoValue
    /\ uploaded_files = <<>> /\ st_dataframes = <<>> /\ dataframes_loaded = FALSE
    /\ num_files = 0 /\ st_generated_code = NoValue /\ calls = <<>>
ResultsIdle ==
    /\ result = PyNone /\ metrics = PyNone /\ summary_text = PyNone /\ insights = PyNone
    /\ verdict = NoValue /\ scores = <<>>

InitResults ==
    /\ result \in ResultInputs
    /\ metrics \in MetricsInputs
    /\ summary_text \in SummaryInputs
    /\ insights \in InsightsInputs
    /\ verdict = NoValue
    /\ scores = <<>>
    /\ ExecIdle /\ AppIdle /\ RelIdle /\ SessionIdle

\* The executor's call at code_executor.py:51.
Validate ==
    /\ verdict = NoValue
    /\ verdict' = validate_execution_results(result, metrics, summary_text, insights)
    /\ UNCHANGED <<result, metrics, summary_text, insights, scores>>
    /\ UNCHANGED <<execVars, appVars, relVars, sessionVars>>

\* render_results' call at results_display.py:38.
Score ==
    /\ verdict # NoValue
    /\ scores = <<>>
    /\ scores' = <<calculate_quality_score(metrics, insights, summary_text, result)>>
    /\ UNCHANGED <<result, metrics, summary_text, insights, verdict>>
    /\ UNCHANGED <<execVars, appVars, relVars, sessionVars>>

\* The same artifacts rendered again: results_display.py:38 a second time.
Rescore ==
    /\ Len(scores) = 1
    /\ scores' = Append(scores,
                        calculate_quality_score(metrics, insights, summary_text, result))
    /\ UNCHANGED <<result, metrics, summary_text, insights, verdict>>
    /\ UNCHANGED <<execVars, appVars, relVars, sessionVars>>

NextResults == Validate \/ Score \/ Rescore

SpecResults == InitResults /\ [][NextResults]_vars

(***************************************************************************)
(* Claims about the result contract validator and the quality scorer.      *)
(***************************************************************************)
Validated == verdict # NoValue
Scored == Len(scores) >= 1

HasMark(issues, mark) == \E k \in 1..Len(issues) : issues[k].mark = mark

\* The hard rules as C7 lists them, read off the artifacts themselves.
HardRuleFails ==
    \/ result = PyNone
    \/ metrics = PyDict(<<>>)
    \/ summary_text.len = 0 \/ summary_text.blank
    \/ insights = PyList(<<>>)

\* C7: validate_execution_results returns is_valid = False exactly when a
\* hard rule fails (result absent, metrics an empty mapping, summary_text empty
\* or whitespace-only, insights an empty sequence); soft issues never change
\* is_valid, so is_valid is False exactly when a hard-marked issue is listed.
C7_ValidIffNoHardRuleFails ==
    Validated =>
        /\ ~verdict.raised
        /\ (verdict.is_valid = FALSE) <=> HardRuleFails
        /\ (verdict.is_valid = FALSE) <=> HasMark(verdict.issues, "cross")

\* C7's case: a whitespace-only summary is the only hard failure, next to soft issues.
C7_Witness ==
    /\ Validated
    /\ summary_text = PyStr(3, TRUE)
    /\ result # PyNone /\ Truthy(metrics) /\ Truthy(insights)
    /\ HasMark(verdict.issues, "warning")
    /\ ~verdict.is_valid

AllAbsent ==
    /\ result = PyNone /\ metrics = PyDict(<<>>)
    /\ summary_text = PyStr(0, TRUE) /\ insights = PyList(<<>>)

\* C8: with result None, metrics {}, summary_text "" and insights [] the
\* validator returns is_valid = False with exactly four issues, all hard, and
\* the quality score is 0.
C8_AllAbsentFourHardIssuesScoreZero ==
    (AllAbsent /\ Validated) =>
        /\ verdict.is_valid = FALSE
        /\ Len(verdict.issues) = 4
        /\ \A k \in 1..Len(verdict.issues) : verdict.issues[k].mark = "cross"
        /\ \A k \in 1..Len(scores) : scores[k] = 0

C8_Witness == AllAbsent /\ Validated /\ Scored

C10_SumFifths ==
    5 * (Min(30, 6 * Len(metrics.vals))
         + Min(20, 4 * Len(insights.items))
         + Min(10, 2 * Cardinality({n \in 1..Len(insights.items) :
                                        ContainsDigit(insights.items[n])}))
         + ResultPoints(result))
    + (IF summary_text.len >= 100 THEN 100 ELSE summary_text.len)

C10_Scenario ==
    /\ metrics = PyDict(<<"num", "num", "num", "num", "num">>)
    /\ insights = PyList([n \in 1..5 |-> DigitInsight])
    /\ summary_text = PyStr(120, FALSE)
    /\ result = PyDataFrame(2, 2)

\* C10: the quality score is the integer floor, capped at 100, of that sum;
\* 5 metrics, 5 insights with a digit each, a 120-character summary and a
\* non-empty two-column table score exactly 100.
C10_ScoreIsCappedFloorOfSum ==
    \A k \in 1..Len(scores) :
        /\ scores[k] = Min(100, C10_SumFifths \div 5)
        /\ C10_Scenario => scores[k] = 100

C10_Witness == C10_Scenario /\ Scored /\ scores[1] = 100

AllNonNull(m) == \A n \in 1..Len(m.vals) : m.vals[n] = "num"

\* What the metrics mapping adds to a score: the score less the score the
\* same insights, summary and result get with an empty mapping.
MetricsContribution(score) ==
    score - calculate_quality_score(PyDict(<<>>), insights, summary_text, result)

\* C11: a metrics mapping of exactly 5 non-null entries contributes 30 points
\* to the quality score, one of 4 entries contributes 24, and one of 0 entries
\* contributes 0 and makes validate_execution_results return is_valid = False.
C11_MetricsContributionAtBoundaries ==
    /\ \A k \in 1..Len(scores) :
        /\ (PyLen(metrics) = 5 /\ AllNonNull(metrics)) => MetricsContribution(scores[k]) = 30
        /\ PyLen(metrics) = 4 => MetricsContribution(scores[k]) = 24
        /\ PyLen(metrics) = 0 => MetricsContribution(scores[k]) = 0
    /\ (Validated /\ PyLen(metrics) = 0) => verdict.is_valid = FALSE

\* C11's case: four metrics, scored next to other non-empty artifacts.
C11_Witness ==
    /\ Scored /\ Validated
    /\ PyLen(metrics) = 4 /\ MetricsContribution(scores[1]) = 24
    /\ Truthy(insights) /\ result # PyNone /\ scores[1] > 24

\* What the result adds to a score: the score less the score the same
\* metrics, insights and summary get with result None.
ResultContribution(score) ==
    score - calculate_quality_score(metrics, insights, summary_text, PyNone)

\* More than one column-like dimension: a table of more than one column.
MultiColumn(r) == r.type = "df" /\ r.cols > 1

\* C15 as stated: the result contributes 15 when sized and non-empty, 5 more
\* with more than one column, 5 when sized and empty (table, series or list
\* alike), 10 when present and not sized, 0 when absent.
C15_ResultPointsBySize ==
    \A k \in 1..Len(scores) :
        LET c == ResultContribution(scores[k])
        IN  /\ result = PyNone => c = 0
            /\ (result # PyNone /\ ~HasLen(result)) => c = 10
            /\ (HasLen(result) /\ PyLen(result) = 0) => c = 5
            /\ (HasLen(result) /\ PyLen(result) > 0) =>
                  c = 15 + (IF MultiColumn(result) THEN 5 ELSE 0)

\* C15 amended: the result contributes 15 when it is a non-empty DataFrame, 5
\* more with more than one column, 5 when it is an empty DataFrame, 10 when it
\* is any other present value (a series or a list, empty or not, or a
\* scalar), 0 when absent.
C15_ResultPointsByDataFrame ==
    \A k \in 1..Len(scores) :
        LET c == ResultContribution(scores[k])
        IN  /\ result = PyNone => c = 0
            /\ (result # PyNone /\ result.type # "df") => c = 10
            /\ (result.type = "df" /\ PyLen(result) = 0) => c = 5
            /\ (result.type = "df" /\ PyLen(result) > 0) =>
                  c = 15 + (IF MultiColumn(result) THEN 5 ELSE 0)

\* C15's case: an empty list scored next to other artifacts contributes 10.
C15_Witness ==
    /\ Scored
    /\ result = PyList(<<>>)
    /\ ResultContribution(scores[1]) = 10
    /\ scores[1] > 10

\* The issues of the verdict that carry a given message.
IssuesWith(text) == {k \in 1..Len(verdict.issues) : verdict.issues[k].text = text}

IssueCount(text) == Cardinality(IssuesWith(text))

\* The keys of metrics whose value is None.
NullKeys == {n \in 1..Len(metrics.vals) : metrics.vals[n] = "null"}

\* Every artifact is in the state that earns its cardinality soft issue.
AllSoft ==
    /\ HasLen(result) /\ PyLen(result) = 0
    /\ PyLen(metrics) \in 1..4
    /\ ~summary_text.blank /\ PyLen(summary_text) \in 1..49
    /\ PyLen(insights) \in 1..4

\* C16: validate_execution_results lists for each artifact its hard issue or
\* its cardinality soft issue, never both. A present result of length zero,
\* metrics of 1 to 4 entries, insights of 1 to 4 entries and a non-blank
\* summary under 50 characters each get their soft issue once and not their
\* hard issue, and is_valid stays True when every artifact is in such a state.
\* Metrics values that are None get one further soft issue that names
\* exactly the keys holding them.
C16_HardOrSoftNeverBoth ==
    Validated =>
        /\ IssueCount("Result is None") + IssueCount("Result is empty") <= 1
        /\ IssueCount("Metrics dictionary is empty")
              + IssueCount("Only n metrics provided") <= 1
        /\ IssueCount("Summary text is empty")
              + IssueCount("Summary text is very short") <= 1
        /\ IssueCount("Insights list is empty")
              + IssueCount("Only n insights provided") <= 1
        /\ (HasLen(result) /\ PyLen(result) = 0) =>
              \E k \in IssuesWith("Result is empty") : verdict.issues[k].mark = "warning"
        /\ PyLen(metrics) \in 1..4 =>
              \E k \in IssuesWith("Only n metrics provided") :
                  /\ verdict.issues[k].mark = "warning"
                  /\ verdict.issues[k].arg = <<PyLen(metrics)>>
        /\ PyLen(insights) \in 1..4 =>
              \E k \in IssuesWith("Only n insights provided") :
                  /\ verdict.issues[k].mark = "warning"
                  /\ verdict.issues[k].arg = <<PyLen(insights)>>
        /\ (~summary_text.blank /\ PyLen(summary_text) \in 1..49) =>
              \E k \in IssuesWith("Summary text is very short") :
                  verdict.issues[k].mark = "warning"
        /\ AllSoft => verdict.is_valid = TRUE
        /\ IssueCount("Metrics contain None values") = (IF NullKeys = {} THEN 0 ELSE 1)
        /\ \A k \in IssuesWith("Metrics contain None values") :
              LET keys == verdict.issues[k].arg
              IN  /\ verdict.issues[k].mark = "warning"
                  /\ {keys[n] : n \in 1..Len(keys)} = NullKeys
                  /\ Len(keys) = Cardinality(NullKeys)

\* C16's case: every artifact in its soft state, two of three metrics None.
C16_Witness ==
    /\ Validated /\ AllSoft
    /\ result = PyDataFrame(0, 2)
    /\ metrics = PyDict(<<"null", "num", "null">>)
    /\ verdict.is_valid
    /\ Len(verdict.issues) >= 5

\* The insights that hold a decimal digit.
DigitInsights == {n \in 1..Len(insights.items) : ContainsDigit(insights.items[n])}

\* C17: for a non-empty insights sequence of n strings, k of them holding a
\* digit, validate_execution_results lists the 'insights lack specific
\* numbers' issue exactly when 10 * k < 6 * n, so not at exactly 60% (3 of 5);
\* it lists it never for an empty sequence, and the issue is soft: is_valid
\* is what the hard rules alone make it.
C17_LackNumbersBelowSixtyPercent ==
    Validated =>
        LET n == Len(insights.items)
            k == Cardinality(DigitInsights)
        IN  /\ IssueCount("Many insights lack specific numbers")
                  = (IF n > 0 /\ 10 * k < 6 * n THEN 1 ELSE 0)
            /\ \A j \in IssuesWith("Many insights lack specific numbers") :
                  verdict.issues[j].mark = "warning"
            /\ verdict.is_valid = ~HardRuleFails

\* C17's case: three of five insights hold a digit, no such issue is listed.
C17_Witness ==
    /\ Validated
    /\ Len(insights.items) = 5 /\ Cardinality(DigitInsights) = 3
    /\ IssueCount("Many insights lack specific numbers") = 0

\* Just below the threshold: two of five, the issue is listed and the verdict
\* stays valid.
C17_BelowThreshold ==
    /\ Validated
    /\ Len(insights.items) = 5 /\ Cardinality(DigitInsights) = 2
    /\ IssueCount("Many insights lack specific numbers") = 1
    /\ verdict.is_valid

\* C26: whenever validate_execution_results marks the artifacts invalid,
\* calculate_quality_score for the same artifacts is below 80, so an invalid
\* result is never labelled "Excellent".
MarkedInvalid == Validated /\ ~verdict.raised /\ ~verdict.is_valid

LabelledExcellent == Scored /\ scores[1] >= 80

C26_InvalidScoresBelowEighty == MarkedInvalid => ~LabelledExcellent

\* No state is invalid for a missing result alone and labelled "Excellent".
C26_MissingResultNotExcellent ==
    ~(MarkedInvalid /\ LabelledExcellent /\ result = PyNone)

\* No state is invalid for a whitespace summary alone and scored 100.
C26_BlankSummaryNotFullScore ==
    ~(MarkedInvalid /\ Scored /\ scores[1] = 100 /\ summary_text.blank)
(***************************************************************************)
(* core/code_executor.py: execute_generated_code                           *)
(* One step per statement that touches sys.stdout, so that calls on two    *)
(* threads can interleave; pc[t] is thread t's position:                   *)
(*   idle     not in a call                                                *)
(*   l34      after line 33 (old_stdout saved), before line 34             *)
(*   exec     inside exec(code, ...) at line 38                            *)
(*   l40      exec returned, before line 40                                *)
(*   l41      before lines 41-61                                           *)
(*   except   the handler at lines 63-66, pending[t] in flight             *)
(*   finally  the finally clause at lines 67-68                            *)
(* Stream 0 is the stream that is sys.stdout when the process starts;      *)
(* stream k > 0 is the k-th io.StringIO created. A chunk records the text  *)
(* printed and, as history, the buffer id of the call whose code printed.  *)
(***************************************************************************)
MaxCalls == 2
MaxPrints == 2

Threads == {1, 2}
RequiredVars == {"result", "metrics", "summary_text", "insights"}
Unset == [type |-> "unset"]

\* line 11: the table names of dataframes_dict
dataframes_dict == {"df_sales", "df_customers"}

\* A name the generated code binds at its top level, next to the four.
CodeNames == {"helper"}

\* The table name the generated code rebinds (df_sales = df_sales.head(0)).
ReboundNames == {"df_sales"}

\* The tables the caller holds in dataframes_dict.
LoadedTables == [n \in dataframes_dict |-> PyDataFrame(2, 2)]

\* The names the namespaces of a call are looked at under.
Names == RequiredVars \cup {"pd", "np"} \cup dataframes_dict \cup CodeNames

PyModule(name) == [type |-> "module", name |-> name]

\* lines 23-30: local_vars = {'pd': pd, 'np': numpy} plus one entry per table
InitialNamespace ==
    [n \in Names |->
        CASE n \in {"pd", "np"} -> PyModule(n)
          [] n \in dataframes_dict -> table_objects[n]
          [] OTHER -> Unset]

\* line 38: the globals dictionary handed to exec
exec_globals == {"__builtins__", "pd"}

\* Where the code reads a name: at its top level, in the body of a function
\* it defines, or in the body of a lambda.
Scopes == {"top", "def", "lambda"}

\* Python's name resolution for code run by exec(code, globals, locals) with
\* two distinct dictionaries: top-level code reads locals, then globals; the
\* body of a function or lambda reads its own locals and then the function's
\* globals, which is the globals dictionary, never the locals of exec.
Resolve(lv, name, scope) ==
    IF scope = "top" /\ lv[name] # Unset THEN "locals"
    ELSE IF name \in exec_globals THEN "globals"
    ELSE "NameError"

\* What the generated code may bind to each identifier.
CodeValues(name) ==
    CASE name = "result" -> {PyDataFrame(2, 2)}
      [] name = "metrics" -> {PyDict(<<"num", "num", "num", "num", "num">>)}
      [] name = "summary_text" -> {PyStr(120, FALSE), PyInt(7)}
      [] name = "insights" -> {PyList(<<DigitInsight>>)}
      [] name \in CodeNames -> {PyInt(5)}
      [] name \in ReboundNames -> {PyDataFrame(0, 2)}

\* What the generated code may raise: Exception subclasses and exceptions
\* that derive from BaseException only.
CodeErrors ==
    {PyError("KeyError", "Exception"), PyError("ZeroDivisionError", "Exception"),
     PyError("SystemExit", "BaseException")}

InitExecutor ==
    /\ sys_stdout = 0
    /\ streams = [k \in {0} |-> <<>>]
    /\ nbuf = 0
    /\ pc = [t \in Threads |-> "idle"]
    /\ old_stdout = [t \in Threads |-> 0]
    /\ captured_output = [t \in Threads |-> 0]
    /\ local_vars = [t \in Threads |-> [n \in Names |-> Unset]]
    /\ pending = [t \in Threads |-> NoValue]
    /\ retval = [t \in Threads |-> NoValue]
    /\ outcome = [t \in Threads |-> NoValue]
    /\ entry_stdout = [t \in Threads |-> 0]
    /\ code_error = [t \in Threads |-> NoValue]
    /\ written = [t \in Threads |-> <<>>]
    /\ lookup = [t \in Threads |-> NoValue]
    /\ table_objects = LoadedTables
    /\ ResultsIdle /\ AppIdle /\ RelIdle /\ SessionIdle

\* Calls begun so far: buffers created plus calls between lines 33 and 34.
CallsBegun == nbuf + Cardinality({t \in Threads : pc[t] = "l34"})

\* lines 23-33: local_vars = {...}; old_stdout = sys.stdout
L33(t) ==
    /\ pc[t] = "idle"
    /\ CallsBegun < MaxCalls
    /\ local_vars' = [local_vars EXCEPT ![t] = InitialNamespace]
    /\ lookup' = [lookup EXCEPT ![t] = NoValue]
    /\ UNCHANGED table_objects
    /\ old_stdout' = [old_stdout EXCEPT ![t] = sys_stdout]
    /\ entry_stdout' = [entry_stdout EXCEPT ![t] = sys_stdout]
    /\ outcome' = [outcome EXCEPT ![t] = NoValue]
    /\ code_error' = [code_error EXCEPT ![t] = NoValue]
    /\ written' = [written EXCEPT ![t] = <<>>]
    /\ pc' = [pc EXCEPT ![t] = "l34"]
    /\ UNCHANGED <<sys_stdout, streams, nbuf, captured_output, pending, retval>>
    /\ UNCHANGED <<resultsVars, appVars, relVars, sessionVars>>

\* line 34: sys.stdout = captured_output = io.StringIO()
L34(t) ==
    /\ pc[t] = "l34"
    /\ nbuf' = nbuf + 1
    /\ streams' = [k \in 0..(nbuf + 1) |-> IF k <= nbuf THEN streams[k] ELSE <<>>]
    /\ sys_stdout' = nbuf + 1
    /\ captured_output' = [captured_output EXCEPT ![t] = nbuf + 1]
    /\ pc' = [pc EXCEPT ![t] = "exec"]
    /\ UNCHANGED <<old_stdout, local_vars, pending, retval, outcome,
                   entry_stdout, code_error, written>>
    /\ UNCHANGED <<lookup, table_objects>>
    /\ UNCHANGED <<resultsVars, appVars, relVars, sessionVars>>

\* line 38, the code prints: print() writes to whatever sys.stdout is now
CodePrint(t) ==
    /\ pc[t] = "exec"
    /\ Len(written[t]) < MaxPrints
    /\ LET chunk == [text |-> "out", by |-> captured_output[t]]
       IN  /\ streams' = [streams EXCEPT ![sys_stdout] = Append(@, chunk)]
           /\ written' = [written EXCEPT ![t] = Append(@, chunk)]
    /\ UNCHANGED <<sys_stdout, nbuf, pc, old_stdout, captured_output, local_vars,
                   pending, retval, outcome, entry_stdout, code_error>>
    /\ UNCHANGED <<lookup, table_objects>>
    /\ UNCHANGED <<resultsVars, appVars, relVars, sessionVars>>

\* The caller's dict after the code assigned v to name, were local_vars the
\* caller's dict itself.
DictAfterAssign_SameDict(d, name, v) ==
    IF name \in DOMAIN d THEN [d EXCEPT ![name] = v] ELSE d

\* lines 23-30 and 38: the caller's dict after the code assigned v to name.
\* local_vars is a dict of its own, filled entry by entry from
\* dataframes_dict; exec binds the name there.
DictAfterAssign(d, name, v) == d

\* line 38, the code assigns one of the four identifiers or a name of its
\* own for the first time, or rebinds a table name
CodeAssign(t) ==
    /\ pc[t] = "exec"
    /\ \E name \in RequiredVars \cup CodeNames \cup ReboundNames : \E v \in CodeValues(name) :
        /\ \/ local_vars[t][name] = Unset
           \/ name \in ReboundNames /\ local_vars[t][name] = table_objects[name]
        /\ local_vars' = [local_vars EXCEPT ![t][name] = v]
        /\ table_objects' = DictAfterAssign(table_objects, name, v)
    /\ UNCHANGED <<sys_stdout, streams, nbuf, pc, old_stdout, captured_output,
                   pending, retval, outcome, entry_stdout, code_error, written>>
    /\ UNCHANGED lookup
    /\ UNCHANGED <<resultsVars, appVars, relVars, sessionVars>>

\* line 38, the code reads a name of the namespace or one it has bound; a
\* name that does not resolve raises NameError
CodeLookup(t) ==
    /\ pc[t] = "exec"
    /\ \E name \in {"pd", "np"} \cup dataframes_dict \cup CodeNames : \E scope \in Scopes :
        LET found == Resolve(local_vars[t], name, scope)
            e == PyError("NameError", "Exception")
        IN  /\ lookup' = [lookup EXCEPT ![t] =
                             [name |-> name, scope |-> scope, found |-> found]]
            /\ IF found = "NameError"
               THEN /\ code_error' = [code_error EXCEPT ![t] = e]
                    /\ pending' = [pending EXCEPT ![t] = e]
                    /\ pc' = [pc EXCEPT ![t] = "except"]
               ELSE UNCHANGED <<code_error, pending, pc>>
    /\ UNCHANGED <<sys_stdout, streams, nbuf, old_stdout, captured_output, local_vars,
                   retval, outcome, entry_stdout, written, table_objects>>
    /\ UNCHANGED <<resultsVars, appVars, relVars, sessionVars>>

\* Where an exception raised inside the try block goes: `except Exception`
\* catches Exception subclasses only, anything else runs the finally clause.
HandlerFor(e) == IF e.base = "Exception" THEN "except" ELSE "finally"

\* line 38, the code raises
CodeRaise(t) ==
    /\ pc[t] = "exec"
    /\ \E e \in CodeErrors :
        /\ code_error' = [code_error EXCEPT ![t] = e]
        /\ pending' = [pending EXCEPT ![t] = e]
        /\ pc' = [pc EXCEPT ![t] = HandlerFor(e)]
    /\ UNCHANGED <<sys_stdout, streams, nbuf, old_stdout, captured_output, local_vars,
                   retval, outcome, entry_stdout, written>>
    /\ UNCHANGED <<lookup, table_objects>>
    /\ UNCHANGED <<resultsVars, appVars, relVars, sessionVars>>

\* line 38, exec returns
CodeReturn(t) ==
    /\ pc[t] = "exec"
    /\ pc' = [pc EXCEPT ![t] = "l40"]
    /\ UNCHANGED <<sys_stdout, streams, nbuf, old_stdout, captured_output, local_vars,
                   pending, retval, outcome, entry_stdout, code_error, written>>
    /\ UNCHANGED <<lookup, table_objects>>
    /\ UNCHANGED <<resultsVars, appVars, relVars, sessionVars>>

\* line 40: sys.stdout = old_stdout
L40(t) ==
    /\ pc[t] = "l40"
    /\ sys_stdout' = old_stdout[t]
    /\ pc' = [pc EXCEPT ![t] = "l41"]
    /\ UNCHANGED <<streams, nbuf, old_stdout, captured_output, local_vars,
                   pending, retval, outcome, entry_stdout, code_error, written>>
    /\ UNCHANGED <<lookup, table_objects>>
    /\ UNCHANGED <<resultsVars, appVars, relVars, sessionVars>>

\* GetVar as local_vars.get(name): None for every unassigned identifier.
GetVar_NoDefaults(lv, name) == IF lv[name] # Unset THEN lv[name] ELSE PyNone

\* local_vars.get(name, default), lines 44-47
GetVar(lv, name) ==
    IF lv[name] # Unset THEN lv[name]
    ELSE CASE name = "result" -> PyNone
           [] name = "metrics" -> PyDict(<<>>)
           [] name = "summary_text" -> PyStr(0, TRUE)
           [] name = "insights" -> PyList(<<>>)

\* lines 53-61: the returned dictionary
ResultStructure(lv, output_text, v) ==
    [result |-> GetVar(lv, "result"), metrics |-> GetVar(lv, "metrics"),
     summary_text |-> GetVar(lv, "summary_text"), insights |-> GetVar(lv, "insights"),
     output_text |-> output_text,
     is_valid |-> v.is_valid, validation_issues |-> v.issues]

\* lines 41-61: getvalue(), read the bindings back, validate, return
L41(t) ==
    /\ pc[t] = "l41"
    /\ LET lv == local_vars[t]
           output_text == streams[captured_output[t]]
           v == validate_execution_results(GetVar(lv, "result"), GetVar(lv, "metrics"),
                                           GetVar(lv, "summary_text"),
                                           GetVar(lv, "insights"))
       IN  IF v.raised
           THEN /\ pending' = [pending EXCEPT ![t] = v.error]
                /\ pc' = [pc EXCEPT ![t] = HandlerFor(v.error)]
                /\ UNCHANGED retval
           ELSE /\ retval' = [retval EXCEPT ![t] = ResultStructure(lv, output_text, v)]
                /\ pc' = [pc EXCEPT ![t] = "finally"]
                /\ UNCHANGED pending
    /\ UNCHANGED <<sys_stdout, streams, nbuf, old_stdout, captured_output, local_vars,
                   outcome, entry_stdout, code_error, written>>
    /\ UNCHANGED <<lookup, table_objects>>
    /\ UNCHANGED <<resultsVars, appVars, relVars, sessionVars>>

\* ReRaised as `raise RuntimeError(str(e))`: a new exception replaces the
\* one the code raised.
ReRaised_Wrapped(e) == PyError("RuntimeError", "Exception")

\* line 66, `raise e`: the exception that leaves the handler
ReRaised(e) == e

\* lines 63-66: except Exception as e: sys.stdout = old_stdout; raise e
Except(t) ==
    /\ pc[t] = "except"
    /\ sys_stdout' = old_stdout[t]
    /\ pending' = [pending EXCEPT ![t] = ReRaised(pending[t])]
    /\ pc' = [pc EXCEPT ![t] = "finally"]
    /\ UNCHANGED <<streams, nbuf, old_stdout, captured_output, local_vars,
                   retval, outcome, entry_stdout, code_error, written>>
    /\ UNCHANGED <<lookup, table_objects>>
    /\ UNCHANGED <<resultsVars, appVars, relVars, sessionVars>>

\* FinallyStdout with no finally clause: sys.stdout stays what it is.
FinallyStdout_NoRestore(t) == sys_stdout

\* line 68: the stream the finally clause leaves in sys.stdout
FinallyStdout(t) == old_stdout[t]

\* lines 67-68: finally: sys.stdout = old_stdout; then the call returns its
\* value or the pending exception propagates to the caller
Finally(t) ==
    /\ pc[t] = "finally"
    /\ sys_stdout' = FinallyStdout(t)
    /\ outcome' = [outcome EXCEPT ![t] =
                     IF pending[t] # NoValue
                     THEN [kind |-> "raised", error |-> pending[t], value |-> NoValue]
                     ELSE [kind |-> "returned", error |-> NoValue, value |-> retval[t]]]
    /\ pending' = [pending EXCEPT ![t] = NoValue]
    /\ retval' = [retval EXCEPT ![t] = NoValue]
    /\ pc' = [pc EXCEPT ![t] = "idle"]
    /\ UNCHANGED <<streams, nbuf, old_stdout, captured_output, local_vars,
                   entry_stdout, code_error, written>>
    /\ UNCHANGED <<lookup, table_objects>>
    /\ UNCHANGED <<resultsVars, appVars, relVars, sessionVars>>

\* The statements of the function around the code's run.
FrameStep(t) == L33(t) \/ L34(t) \/ L40(t) \/ L41(t) \/ Except(t) \/ Finally(t)

\* Calls made one after another, as the application makes them.
NextExecutor ==
    \/ FrameStep(1)
    \/ CodePrint(1) \/ CodeAssign(1) \/ CodeLookup(1) \/ CodeRaise(1) \/ CodeReturn(1)

SpecExecutor == InitExecutor /\ [][NextExecutor]_vars

\* Calls made from two threads, their statements interleaving; the code run
\* here prints, raises or returns; it binds and reads no name.
NextThreads ==
    \E t \in Threads : FrameStep(t) \/ CodePrint(t) \/ CodeRaise(t) \/ CodeReturn(t)

SpecThreads == InitExecutor /\ [][NextThreads]_vars

(***************************************************************************)
(* Claims about the sandboxed executor.                                    *)
(***************************************************************************)
\* Thread t's last call has ended and its caller holds the outcome.
Exited(t) == pc[t] = "idle" /\ outcome[t] # NoValue

Returned(t) == Exited(t) /\ outcome[t].kind = "returned"

Assigned(t) == {n \in RequiredVars : local_vars[t][n] # Unset}

\* C1: when the generated code raises, execute_generated_code restores
\* sys.stdout to the stream that was current at entry and the caller gets the
\* very error the code raised, and no result structure.
C1_CodeErrorRestoresAndPropagates ==
    \A t \in Threads :
        (Exited(t) /\ code_error[t] # NoValue) =>
            /\ sys_stdout = entry_stdout[t]
            /\ outcome[t] = [kind |-> "raised", error |-> code_error[t], value |-> NoValue]

\* C1's case: the code printed, bound some but not all of the four
\* identifiers, then raised an Exception subclass.
C1_Witness ==
    /\ Exited(1)
    /\ code_error[1] = PyError("KeyError", "Exception")
    /\ written[1] # <<>>
    /\ Assigned(1) # {} /\ Assigned(1) # RequiredVars

\* C2: after any sequence of sequential calls, whatever the exit path of each
\* (return, an exception of the code, a non-Exception abort, a failure after
\* the code ran), sys.stdout is the stream it was before the first call, and a
\* successful call's output_text is exactly what its code printed.
C2_SequentialCallsRestoreAndCapture ==
    pc[1] = "idle" =>
        /\ sys_stdout = 0
        /\ Returned(1) => outcome[1].value.output_text = written[1]

\* C2's case: a second call returns the text it printed.
C2_Witness ==
    /\ nbuf = 2
    /\ Returned(1)
    /\ Len(outcome[1].value.output_text) = 2

\* C2's other exit paths, each reached by some call.
C2_ExitBySystemExit ==
    Exited(1) /\ outcome[1].kind = "raised" /\ outcome[1].error.base = "BaseException"

C2_ExitByValidationFailure ==
    Exited(1) /\ outcome[1].kind = "raised" /\ code_error[1] = NoValue

\* The value the claim gives an identifier the code left unassigned.
C12_Default(name) ==
    CASE name = "result" -> PyNone
      [] name = "metrics" -> PyDict(<<>>)
      [] name = "summary_text" -> PyStr(0, TRUE)
      [] name = "insights" -> PyList(<<>>)

\* C12: when execute_generated_code returns, the structure holds the four
\* bindings read back from the namespace (None for an unassigned result, an
\* empty mapping for metrics, an empty string for summary_text, an empty list
\* for insights), is_valid and validation_issues are what
\* validate_execution_results yields for those four values, and output_text is
\* the content of the call's capture buffer.
C12_ReturnsBindingsVerdictAndOutput ==
    \A t \in Threads :
        Returned(t) =>
            LET value == outcome[t].value
                v == validate_execution_results(value.result, value.metrics,
                                                value.summary_text, value.insights)
            IN  /\ \A name \in RequiredVars :
                      value[name] = IF local_vars[t][name] = Unset
                                    THEN C12_Default(name) ELSE local_vars[t][name]
                /\ ~v.raised
                /\ value.is_valid = v.is_valid
                /\ value.validation_issues = v.issues
                /\ value.output_text = streams[captured_output[t]]

\* C12's case: the code assigned result and insights only and printed; the
\* defaults for metrics and summary_text make the verdict invalid.
C12_Witness ==
    /\ Returned(1)
    /\ Assigned(1) = {"result", "insights"}
    /\ outcome[1].value.metrics = PyDict(<<>>)
    /\ outcome[1].value.output_text # <<>>
    /\ ~outcome[1].value.is_valid
    /\ Len(outcome[1].value.validation_issues) = 3

\* The generated code of thread t's call rebound a table name.
ReboundTable(t) ==
    \E n \in ReboundNames : local_vars[t][n] \notin {Unset, LoadedTables[n]}

\* C22: the caller's dataframes_dict holds the same names bound to the same
\* tables before, during and after every call of execute_generated_code,
\* whether the call returned or raised, also when the code rebound a table
\* name or bound names of its own.
C22_CallerTablesUnchanged ==
    /\ DOMAIN table_objects = dataframes_dict
    /\ \A n \in dataframes_dict : table_objects[n] = LoadedTables[n]

\* C22's case: the code rebound df_sales and bound helper and the call
\* returned.
C22_Witness ==
    /\ Returned(1)
    /\ ReboundTable(1)
    /\ local_vars[1]["helper"] # Unset

\* The same for a call whose code raised after rebinding df_sales.
C22_RaisedAfterRebinding ==
    /\ Exited(1) /\ outcome[1].kind = "raised"
    /\ ReboundTable(1)

\* The generated code of thread t's call ran to completion: exec returned
\* and the call has ended.
CodeCompleted(t) == Exited(t) /\ code_error[t] = NoValue

\* C27: if the generated code runs to completion without raising,
\* execute_generated_code returns a result structure and does not raise,
\* whatever values the code bound to the four identifiers.
C27_CompletedCodeReturns ==
    \A t \in Threads : CodeCompleted(t) => Returned(t)

\* No call whose code completed with a number bound to summary_text ends by
\* raising the AttributeError of summary_text.strip().
C27_NumberSummaryReturns ==
    \A t \in Threads :
        (CodeCompleted(t) /\ local_vars[t]["summary_text"] = PyInt(7))
            => ~(outcome[t].kind = "raised" /\ outcome[t].error.cls = "AttributeError")

\* With values of the contract's types the claim's conclusion holds: the
\* call returns.
C27_ContractTypedReturns ==
    \A t \in Threads :
        (CodeCompleted(t) /\ local_vars[t]["summary_text"] \in {Unset, PyStr(120, FALSE)})
            => Returned(t)

\* C3: when two invocations run on different threads and their statements
\* interleave, then once both have exited sys.stdout is the original stream,
\* and neither invocation's captured output holds text the other's code wrote.
C3_ThreadsRestoreOriginalAndIsolate ==
    (\A t \in Threads : Exited(t)) =>
        /\ sys_stdout = 0
        /\ \A t \in Threads :
              Returned(t) =>
                  \A k \in 1..Len(outcome[t].value.output_text) :
                      outcome[t].value.output_text[k].by = captured_output[t]

\* The names line 23-30 place in the execution namespace.
NamespaceBindings == {"pd", "np"} \cup dataframes_dict

\* C18: a name the code reads resolves, at its top level and in the body of a
\* function or lambda it defines, whenever the name is a binding of the
\* execution namespace (pd, np, a table name) or a name the code has bound at
\* its top level.
C18_NamespaceResolvesInEveryScope ==
    \A t \in Threads :
        (/\ lookup[t] # NoValue
         /\ \/ lookup[t].name \in NamespaceBindings
            \/ local_vars[t][lookup[t].name] # Unset)
            => lookup[t].found # "NameError"

\* The part of C18 that holds: every such name resolves at the top level of
\* the code, and pd resolves in every scope.
C18_ResolvesAtTopLevel ==
    \A t \in Threads :
        (/\ lookup[t] # NoValue
         /\ \/ lookup[t].name \in NamespaceBindings
            \/ local_vars[t][lookup[t].name] # Unset
         /\ lookup[t].scope = "top" \/ lookup[t].name = "pd")
            => lookup[t].found # "NameError"

\* A table name read in a lambda ends the call with NameError.
C18_TableInLambdaFails ==
    /\ Exited(1) /\ outcome[1].kind = "raised" /\ outcome[1].error.cls = "NameError"
    /\ lookup[1].name = "df_sales" /\ lookup[1].scope = "lambda"

\* A name the code bound at its top level, read in a function it defines,
\* ends the call with NameError.
C18_OwnNameInDefFails ==
    /\ Exited(1) /\ outcome[1].kind = "raised" /\ outcome[1].error.cls = "NameError"
    /\ lookup[1].name = "helper" /\ lookup[1].scope = "def"
    /\ local_vars[1]["helper"] = PyInt(5)

(***************************************************************************)
(* utils/code_validator.py: validate_code                                  *)
(* A code string is a sequence of tokens and stands for their              *)
(* concatenation; `x in code` is the search for x's tokens as a contiguous *)
(* run. The tokens are chosen so that no searched text can match across a  *)
(* token boundary other than token by token. A finding is [tag, text, arg]:*)
(* tag is the word after the source's emoji ("SECURITY", "CRITICAL", or    *)
(* "none" when the message has none; "INFO" for the notes).                *)
(***************************************************************************)
MaxCodeLen == 3

Tokens ==
    {"import ", "from ", "os", "sys", "eval", "openai", "numpy", ", ",
     "open(", "requests.", "df_sales"}

\* Whole statements, each on a line of its own (the leading line break is
\* part of the token): an assignment to result, a comparison of result, a
\* call with result as keyword argument, a tuple assignment to result and n,
\* a chained assignment to the three other identifiers.
StatementTokens ==
    {"\nresult = 1", "\nresult == 1", "\nf(result=1)", "\nresult, n = 1, 2",
     "\nmetrics = summary_text = insights = 1"}

\* A lone surrogate character, which ast.parse cannot encode.
Surrogate == "\\ud800"

OutputTokens == StatementTokens \cup {"import ", "os", "df_sales", Surrogate}

\* The code strings the language model may answer with: the tokens of the
\* import checks, in any order.
LlmCodes == BoundedSeq(Tokens, MaxCodeLen)

\* Answers made of the tokens of the output checks.
OutputCodes == BoundedSeq(OutputTokens, MaxCodeLen)

\* Whole statements again, for the security checks: the import forms of the
\* Python grammar and a call of a dynamic-execution primitive.
SecurityStatements ==
    {"\nimport os", "\nimport numpy, os", "\nimport os.path", "\nfrom os import path",
     "\nimport numpy", "\nx = eval('1')"}

\* Answers made of those statements.
SecurityCodes == BoundedSeq(SecurityStatements, MaxCodeLen)

\* The denylisted names imp for which the text `import <imp>` or
\* `from <imp>` occurs inside the token. A statement token starts with a line
\* break, so no such text spans two of them.
ImportTextsIn(tok) ==
    IF tok \in {"\nimport os", "\nimport os.path", "\nfrom os import path"}
    THEN {"os"} ELSE {}

\* pat in code
Contains(code, pat) ==
    \E i \in 1..(Len(code) - Len(pat) + 1) : SubSeq(code, i, i + Len(pat) - 1) = pat

Finding(tag, text, arg) == [tag |-> tag, text |-> text, arg |-> arg]

\* line 29
dangerous_imports == <<"os", "sys", "subprocess", "eval", "exec", "compile", "__import__">>

\* ImportsModule looking for the `import` form only.
ImportsModule_ImportOnly(code, imp) == Contains(code, <<"import ", imp>>)

\* line 31: f'import {imp}' in code or f'from {imp}' in code
ImportsModule(code, imp) ==
    \/ Contains(code, <<"import ", imp>>) \/ Contains(code, <<"from ", imp>>)
    \/ \E k \in 1..Len(code) : imp \in ImportTextsIn(code[k])

\* lines 30-32, one finding per denylisted name, in the list's order
RECURSIVE DangerousImportFindings(_, _)
DangerousImportFindings(code, k) ==
    IF k > Len(dangerous_imports) THEN <<>>
    ELSE (IF ImportsModule(code, dangerous_imports[k])
          THEN <<Finding("SECURITY", "Code tries to import", <<dangerous_imports[k]>>)>>
          ELSE <<>>)
         \o DangerousImportFindings(code, k + 1)

\* lines 34-35
OpenaiFindings(code) ==
    IF ImportsModule(code, "openai")
    THEN <<Finding("none", "Code tries to import openai", <<>>)>> ELSE <<>>

\* lines 37-39
FileFindings(code) ==
    IF Contains(code, <<"open(">>) \/ Contains(code, <<"write(">>)
       \/ Contains(code, <<"read(">>)
    THEN <<Finding("SECURITY", "Code tries to perform file operations", <<>>)>>
    ELSE <<>>

\* lines 41-43
NetworkFindings(code) ==
    IF Contains(code, <<"requests.">>) \/ Contains(code, <<"urllib">>)
       \/ Contains(code, <<"socket">>)
    THEN <<Finding("SECURITY", "Code tries to make network requests", <<>>)>>
    ELSE <<>>

\* line 60: [df_name for df_name in available_dfs if df_name in code]
UsedDfs(code, available_dfs) ==
    SelectFrom(available_dfs,
               {k \in 1..Len(available_dfs) : Contains(code, <<available_dfs[k]>>)}, 1)

\* line 61
UnusedDfs(code, available_dfs) ==
    SelectFrom(available_dfs,
               {k \in 1..Len(available_dfs) : ~Contains(code, <<available_dfs[k]>>)}, 1)

\* UsageFindings never reporting: code that uses no table passes this check.
UsageFindings_Ignored(code, available_dfs) == <<>>

\* lines 49-57
UsageFindings(code, available_dfs) ==
    IF UsedDfs(code, available_dfs) = <<>>
    THEN <<Finding("CRITICAL", "Code doesn't use any of the available dataframes", <<>>)>>
    ELSE <<>>

\* lines 63-67
UsageNotes(code, available_dfs) ==
    (IF UsedDfs(code, available_dfs) # <<>>
     THEN <<Finding("INFO", "Using dataframes", UsedDfs(code, available_dfs))>>
     ELSE <<>>)
    \o (IF UnusedDfs(code, available_dfs) # <<>> /\ Len(UsedDfs(code, available_dfs)) > 0
        THEN <<Finding("INFO", "Not using", UnusedDfs(code, available_dfs))>>
        ELSE <<>>)

\* The required identifiers v for which re.search(rf'\b{v}\s*=', token)
\* matches. No token ends in an identifier or starts with `=`, so the pattern
\* matches in the code exactly when it matches inside one of its tokens.
AssignmentPatterns(tok) ==
    CASE tok \in {"\nresult = 1", "\nresult == 1", "\nf(result=1)"} -> {"result"}
      [] tok = "\nmetrics = summary_text = insights = 1" ->
            {"metrics", "summary_text", "insights"}
      [] OTHER -> {}

\* line 72
required_vars == <<"result", "metrics", "summary_text", "insights">>

\* MissingVars reporting only the first identifier without a match.
MissingVars_FirstOnly(code) ==
    LET missing == SelectFrom(required_vars,
                              {k \in 1..Len(required_vars) :
                                  \A n \in 1..Len(code) :
                                      required_vars[k] \notin AssignmentPatterns(code[n])}, 1)
    IN  IF missing = <<>> THEN <<>> ELSE <<Head(missing)>>

\* lines 73-78: missing_vars
MissingVars(code) ==
    SelectFrom(required_vars,
               {k \in 1..Len(required_vars) :
                   \A n \in 1..Len(code) : required_vars[k] \notin AssignmentPatterns(code[n])},
               1)

\* lines 80-81
MissingFindings(code) ==
    IF MissingVars(code) # <<>>
    THEN <<Finding("CRITICAL", "Missing required output variables", MissingVars(code))>>
    ELSE <<>>

\* The literal texts the remaining checks search for that occur in a token;
\* none of them can arise across a token boundary. The tokens hold no `{`,
\* `[`, `.str.`, `&`, `|`, `/`, `if `, `len(` and no quoted column access.
TextsIn(tok) ==
    IF tok = "\nmetrics = summary_text = insights = 1" THEN {"metrics", "insights"} ELSE {}

\* text in code, for those texts
Has(code, text) == \E k \in 1..Len(code) : text \in TextsIn(code[k])

\* lines 85-104: the size of a metrics = {...} or insights = [...] literal
StructureFindings(code) ==
    (IF Has(code, "metrics") /\ Has(code, "metrics = {")
     THEN <<Finding("QUALITY", "Only n metrics found", <<>>)>> ELSE <<>>)
    \o (IF Has(code, "insights") /\ Has(code, "insights = [")
        THEN <<Finding("QUALITY", "Only n insights found", <<>>)>> ELSE <<>>)

\* lines 110-124
DataHandlingFindings(code) ==
    (IF Has(code, ".str.") /\ ~Has(code, "na=False")
     THEN <<Finding("WARNING", "String operations found but na=False not used", <<>>)>>
     ELSE <<>>)
    \o (IF Has(code, "&") \/ Has(code, "|")
        THEN <<Finding("WARNING", "Boolean operations may not be parenthesized", <<>>)>>
        ELSE <<>>)
    \o (IF Has(code, "/") /\ ~Has(code, "if ")
        THEN <<Finding("NOTE", "Division operations found", <<>>)>> ELSE <<>>)
    \o (IF (Has(code, ".iloc[0]") \/ Has(code, ".loc[0]")) /\ ~Has(code, "if len(")
        THEN <<Finding("WARNING", "Direct indexing found", <<>>)>> ELSE <<>>)

\* ast.parse on the token language. The text is read token by token; the
\* state tells what the current line is so far:
\*   START       nothing yet               EXPR_NAME  an expression ending in a name
\*   EXPR_SP     ... in a name and a blank  EXPR_COMMA ... in a comma
\*   EXPR_DOT    ... in a dot               STMT_END   a whole statement token
\*   IMP0        `import`, a name is due    IMP_NAME   `import` and names
\*   IMP_SP      ... a name and a blank     IMP_DOT    ... ending in a dot
\*   FROM0       `from`, a name is due      FROM_NAME  `from` and a dotted name
\*   FROM_DOT    ... ending in a dot        FROM_SP    ... a name and a blank
\*   FI0         `from m import`, or a      FI_NAME    ... and names
\*               comma after it             FI_SP      ... a name and a blank
\*   DEAD        no continuation parses
\* Adjacent names join into one name; `import ` and `from ` behind a name
\* join it and leave a blank; `open(` is never closed.
NameTokens == {"os", "sys", "eval", "openai", "numpy", "df_sales"}

Accepting ==
    {"START", "EXPR_NAME", "EXPR_SP", "EXPR_COMMA", "IMP_NAME", "IMP_SP", "STMT_END",
     "FI_NAME", "FI_SP"}

ParseStep(st, tok) ==
    LET name == tok \in NameTokens
        kw == tok \in {"import ", "from "}
        comma == tok = ", "
        dot == tok = "requests."
    IN  CASE st = "DEAD" \/ tok = "open(" \/ tok = Surrogate -> "DEAD"
          [] tok \in StatementTokens \cup SecurityStatements -> IF st \in Accepting THEN "STMT_END" ELSE "DEAD"
          [] st = "START" /\ name -> "EXPR_NAME"
          [] st = "START" /\ tok = "import " -> "IMP0"
          [] st = "START" /\ tok = "from " -> "FROM0"
          [] st = "START" /\ dot -> "EXPR_DOT"
          [] st \in {"EXPR_NAME", "EXPR_COMMA", "EXPR_DOT"} /\ name -> "EXPR_NAME"
          [] st \in {"EXPR_NAME", "EXPR_COMMA", "EXPR_DOT"} /\ dot -> "EXPR_DOT"
          [] st \in {"EXPR_NAME", "EXPR_SP", "STMT_END"} /\ comma -> "EXPR_COMMA"
          [] st = "EXPR_NAME" /\ kw -> "EXPR_SP"
          [] st \in {"IMP0", "IMP_NAME", "IMP_DOT"} /\ name -> "IMP_NAME"
          [] st \in {"IMP0", "IMP_NAME", "IMP_DOT"} /\ dot -> "IMP_DOT"
          [] st \in {"IMP_NAME", "IMP_SP"} /\ comma -> "IMP0"
          [] st = "IMP_NAME" /\ kw -> "IMP_SP"
          [] st \in {"FROM0", "FROM_NAME", "FROM_DOT"} /\ name -> "FROM_NAME"
          [] st \in {"FROM0", "FROM_NAME", "FROM_DOT"} /\ dot -> "FROM_DOT"
          [] st = "FROM_NAME" /\ kw -> "FROM_SP"
          [] st = "FROM_SP" /\ tok = "import " -> "FI0"
          [] st \in {"FI0", "FI_NAME"} /\ name -> "FI_NAME"
          [] st \in {"FI_NAME", "FI_SP"} /\ comma -> "FI0"
          [] st = "FI_NAME" /\ kw -> "FI_SP"
          [] OTHER -> "DEAD"

RECURSIVE ParseRun(_, _, _)
ParseRun(code, k, st) ==
    IF k > Len(code) THEN st ELSE ParseRun(code, k + 1, ParseStep(st, code[k]))

\* lines 130-135: how ast.parse(code) ends: "ok", a SyntaxError, or another
\* exception (the text cannot be encoded)
ParseOutcome(code) ==
    IF \E k \in 1..Len(code) : code[k] = Surrogate THEN "UnicodeEncodeError"
    ELSE IF ParseRun(code, 1, "START") \in Accepting THEN "ok"
    ELSE "SyntaxError"

\* lines 132-133: except SyntaxError, appended to issues
SyntaxFindings(code) ==
    IF ParseOutcome(code) = "SyntaxError"
    THEN <<Finding("SYNTAX ERROR", "str(e)", <<>>)>> ELSE <<>>

\* lines 134-135: except Exception, appended to warnings
ParseWarnings(code) ==
    IF ParseOutcome(code) \notin {"ok", "SyntaxError"}
    THEN <<Finding("none", "Could not parse code", <<ParseOutcome(code)>>)>> ELSE <<>>

\* lines 141-147
BestPracticeFindings(code, available_dfs) ==
    (IF Has(code, "[digits]") /\ ~Has(code, "len(")
     THEN <<Finding("NOTE", "Hardcoded indices found", <<>>)>> ELSE <<>>)
    \o (IF ~Has(code, "df['") /\ ~Has(code, "df[\"")
           /\ UsedDfs(code, available_dfs) # <<>>
        THEN <<Finding("NOTE", "Ensure column names are accessed with quotes", <<>>)>>
        ELSE <<>>)

\* validate_code with the parse failure escaping: nothing is returned for
\* code that does not parse.
validate_code_ParseFailureRaises(code, available_dfs) ==
    IF ParseOutcome(code) # "ok" THEN <<>>
    ELSE (DangerousImportFindings(code, 1) \o OpenaiFindings(code) \o FileFindings(code)
          \o NetworkFindings(code) \o UsageFindings(code, available_dfs)
          \o MissingFindings(code))
         \o UsageNotes(code, available_dfs)

\* lines 21-152: all_issues = issues + warnings
validate_code(code, available_dfs) ==
    (DangerousImportFindings(code, 1) \o OpenaiFindings(code) \o FileFindings(code)
     \o NetworkFindings(code) \o UsageFindings(code, available_dfs)
     \o MissingFindings(code) \o SyntaxFindings(code))
    \o (UsageNotes(code, available_dfs) \o StructureFindings(code)
        \o DataHandlingFindings(code) \o ParseWarnings(code)
        \o BestPracticeFindings(code, available_dfs))

(***************************************************************************)
(* app.py: main, the code review workflow (lines 126-159). One action is   *)
(* one user interaction and the script run it triggers.                    *)
(*   llm_code           the code string generate_code_with_llm answers     *)
(*                      with in this session                               *)
(*   generated_code     st.session_state.generated_code: [type, text], or  *)
(*                      NoValue when the attribute is absent               *)
(*   dataframes         the names in st.session_state.dataframes           *)
(*   validation_issues  the list the last code review rendered             *)
(*   executed           the call of execute_generated_code the last run    *)
(*                      made, if any: the code, the findings shown with   *)
(*                      it, how the call ended                            *)
(*   ui                 what the last run rendered below the query input   *)
(***************************************************************************)
CodeString(code) == [type |-> "code", text |-> code]

\* line 127: hasattr(st.session_state, 'generated_code')
HasGeneratedCode == generated_code # NoValue

InitApp ==
    /\ llm_code \in LlmCodes
    /\ dataframes \in {<<"df_sales">>, <<"df_sales", "df_customers">>}
    /\ generated_code = NoValue
    /\ validation_issues = <<>>
    /\ executed = NoValue
    /\ ui = "query"
    /\ ResultsIdle /\ ExecIdle /\ RelIdle /\ SessionIdle

\* ClickGenerate running the code as soon as it is generated, without review.
ClickGenerate_AutoExecute ==
    /\ generated_code' = NoValue
    /\ validation_issues' = validate_code(llm_code, dataframes)
    /\ ui' = "results"
    /\ executed' = [code |-> llm_code, issues |-> validation_issues', raised |-> FALSE]
    /\ UNCHANGED <<llm_code, dataframes>>
    /\ UNCHANGED <<resultsVars, execVars, relVars, sessionVars>>

\* lines 57-120: Generate Code stores the LLM's answer and reruns; the rerun
\* renders the review (lines 127-136)
ClickGenerate ==
    /\ generated_code' = CodeString(llm_code)
    /\ validation_issues' = validate_code(llm_code, dataframes)
    /\ ui' = "review"
    /\ executed' = NoValue
    /\ UNCHANGED <<llm_code, dataframes>>
    /\ UNCHANGED <<resultsVars, execVars, relVars, sessionVars>>

\* lines 138-141: Discard deletes the code and reruns
ClickDiscard ==
    /\ HasGeneratedCode
    /\ generated_code' = NoValue
    /\ validation_issues' = <<>>
    /\ ui' = "query"
    /\ executed' = NoValue
    /\ UNCHANGED <<llm_code, dataframes>>
    /\ UNCHANGED <<resultsVars, execVars, relVars, sessionVars>>

\* lines 127-136 and 143-156: Execute Code, the executor returns; the results
\* are rendered and the code is deleted
ClickExecuteReturns ==
    /\ HasGeneratedCode
    /\ ui' = "results"
    /\ generated_code' = NoValue
    /\ validation_issues' = validate_code(generated_code.text, dataframes)
    /\ executed' = [code |-> generated_code.text, issues |-> validation_issues',
                    raised |-> FALSE]
    /\ UNCHANGED <<llm_code, dataframes>>
    /\ UNCHANGED <<resultsVars, execVars, relVars, sessionVars>>

\* lines 127-136, 143-150 and 158-159: Execute Code, the executor raises; the
\* error is rendered and the code stays
ClickExecuteRaises ==
    /\ HasGeneratedCode
    /\ ui' = "error"
    /\ validation_issues' = validate_code(generated_code.text, dataframes)
    /\ executed' = [code |-> generated_code.text, issues |-> validation_issues',
                    raised |-> TRUE]
    /\ UNCHANGED <<llm_code, dataframes, generated_code>>
    /\ UNCHANGED <<resultsVars, execVars, relVars, sessionVars>>

ClickExecute == ClickExecuteReturns \/ ClickExecuteRaises

NextApp == ClickGenerate \/ ClickDiscard \/ ClickExecuteReturns \/ ClickExecuteRaises

SpecApp == InitApp /\ [][NextApp]_vars

\* The same workflow on the answers made of the tokens of the output checks.
InitOutputs ==
    /\ llm_code \in OutputCodes
    /\ dataframes \in {<<>>, <<"df_sales">>, <<"df_sales", "df_customers">>}
    /\ generated_code = NoValue
    /\ validation_issues = <<>>
    /\ executed = NoValue
    /\ ui = "query"
    /\ ResultsIdle /\ ExecIdle /\ RelIdle /\ SessionIdle

SpecOutputs == InitOutputs /\ [][NextApp]_vars

\* The same workflow on the answers made of the security statements.
InitSecurity ==
    /\ llm_code \in SecurityCodes
    /\ dataframes \in {<<"df_sales">>, <<"df_sales", "df_customers">>}
    /\ generated_code = NoValue
    /\ validation_issues = <<>>
    /\ executed = NoValue
    /\ ui = "query"
    /\ ResultsIdle /\ ExecIdle /\ RelIdle /\ SessionIdle

SpecSecurity == InitSecurity /\ [][NextApp]_vars

(***************************************************************************)
(* Claims about the static validator.                                      *)
(***************************************************************************)
HasTag(findings, tag) == \E k \in 1..Len(findings) : findings[k].tag = tag

\* The code holds the literal import form of a denylisted name:
\* `import <name>` or `from <name>`.
HoldsDenylistedImport(code) ==
    \E k \in 1..Len(dangerous_imports) :
        \/ Contains(code, <<"import ", dangerous_imports[k]>>)
        \/ Contains(code, <<"from ", dangerous_imports[k]>>)

\* C4: for every code string holding a denylisted import, the list
\* validate_code returns is non-empty and holds a security-tagged message, and
\* the code is not kept from executing: the Execute action stays available
\* and, once taken, calls the executor on that code.
C4_DenylistedImportFlaggedNotBlocked ==
    /\ (HasGeneratedCode /\ HoldsDenylistedImport(generated_code.text)) =>
          /\ validation_issues # <<>>
          /\ HasTag(validation_issues, "SECURITY")
          /\ ENABLED ClickExecute
    /\ (executed # NoValue /\ HoldsDenylistedImport(executed.code)) =>
          HasTag(executed.issues, "SECURITY")

\* C4's case: code with `from os` was flagged and then executed.
C4_Witness ==
    /\ executed # NoValue
    /\ Contains(executed.code, <<"from ", "os">>)
    /\ HasTag(executed.issues, "SECURITY")

\* The run this step triggers calls execute_generated_code.
ExecutorInvoked == executed' # NoValue

\* The run this step triggers renders what follows a call of the executor:
\* the results (lines 152-156) or the execution error (lines 158-159).
ExecutionRendered == ui' \in {"results", "error"}

\* What C13 says of one step.
C13_Step ==
    /\ ExecutorInvoked <=> ExecutionRendered
    /\ ExecutorInvoked =>
          /\ HasGeneratedCode
          /\ executed'.code = generated_code.text
          /\ executed'.issues = validation_issues'

\* C13: the application calls the executor only in the run an Execute click
\* triggers while a generated code string is pending, and then on that very
\* string; generating or validating code never calls it. Whatever findings
\* validate_code reported, security findings included, the Execute action on
\* pending code is available and calls the executor.
C13_ExecutorRunsOnlyOnExecuteClick ==
    /\ [](HasGeneratedCode => ENABLED ClickExecute)
    /\ [][C13_Step]_vars

\* C13's case: code reported both as a security risk and as using no
\* dataframe was executed and its results rendered.
C13_Witness ==
    /\ executed # NoValue
    /\ HasTag(executed.issues, "SECURITY") /\ HasTag(executed.issues, "CRITICAL")
    /\ ~executed.raised /\ ui = "results" /\ ~HasGeneratedCode

\* findings holds f
Reports(findings, f) == \E k \in 1..Len(findings) : findings[k] = f

\* The identifiers the findings name as missing required outputs.
ReportedMissing(findings) ==
    {v \in Range(required_vars) :
        \E k \in 1..Len(findings) :
            /\ findings[k].text = "Missing required output variables"
            /\ v \in Range(findings[k].arg)}

\* The required identifiers the statement in tok assigns when it runs. A
\* comparison and a call with a keyword argument assign nothing.
AssignedBy(tok) ==
    CASE tok \in {"\nresult = 1", "\nresult, n = 1, 2"} -> {"result"}
      [] tok = "\nmetrics = summary_text = insights = 1" ->
            {"metrics", "summary_text", "insights"}
      [] OTHER -> {}

\* code holds an assignment to v
Assigns(code, v) == \E k \in 1..Len(code) : v \in AssignedBy(code[k])

\* The text of code holds a match of \bv\s*=
MatchesAssignmentPattern(code, v) ==
    \E k \in 1..Len(code) : v \in AssignmentPatterns(code[k])

\* C19 as stated: validate_code reports a required identifier as missing
\* exactly when the code holds no assignment to it; `result == 1` and
\* `f(result=1)` are no assignments.
C19_MissingIffNotAssigned ==
    HasGeneratedCode =>
        \A v \in Range(required_vars) :
            v \in ReportedMissing(validation_issues) <=> ~Assigns(generated_code.text, v)

\* C19: validate_code reports a required identifier as missing exactly when
\* the code text holds no match of the identifier followed by optional
\* whitespace and `=`; `result == 1` and `f(result=1)` hold such a match and
\* `result, n = 1, 2` holds none. All the identifiers without a match are
\* reported, in one finding, in the order result, metrics, summary_text,
\* insights.
C19_MissingIffNoAssignmentPattern ==
    HasGeneratedCode =>
        LET code == generated_code.text
            unmatched == {k \in 1..Len(required_vars) :
                             ~MatchesAssignmentPattern(code, required_vars[k])}
        IN  /\ \A v \in Range(required_vars) :
                  v \in ReportedMissing(validation_issues)
                      <=> ~MatchesAssignmentPattern(code, v)
            /\ unmatched # {} =>
                  Reports(validation_issues,
                          Finding("CRITICAL", "Missing required output variables",
                                  SelectFrom(required_vars, unmatched, 1)))
            /\ Contains(code, <<"\nresult == 1">>) \/ Contains(code, <<"\nf(result=1)">>)
                  => "result" \notin ReportedMissing(validation_issues)

\* C19's case: the code compares result and assigns nothing to it, and the
\* review reports the three other identifiers as missing but not result.
C19_Witness ==
    /\ HasGeneratedCode
    /\ Contains(generated_code.text, <<"\nresult == 1">>)
    /\ ~Assigns(generated_code.text, "result")
    /\ ReportedMissing(validation_issues) = {"metrics", "summary_text", "insights"}

\* The code holds the tuple assignment to result and the review reports
\* result as missing all the same.
C19_TupleAssignmentReported ==
    /\ HasGeneratedCode
    /\ generated_code.text = <<"\nresult, n = 1, 2">>
    /\ "result" \in ReportedMissing(validation_issues)

\* C20: validate_code returns a list for every code string. When ast.parse
\* fails, with a SyntaxError or with any other exception, the list holds an
\* entry for the failure. Whether or not the code parses, the list holds the
\* security finding of every denylisted import in the code, the finding of
\* the dataframe usage check (no dataframe used, or the dataframes used) and,
\* when a required identifier has no assignment pattern, the finding of the
\* missing outputs.
C20_ParseFailureReportedOtherChecksRun ==
    HasGeneratedCode =>
        LET code == generated_code.text
            issues == validation_issues
        IN  /\ DOMAIN issues = 1..Len(issues)
            /\ ParseOutcome(code) = "SyntaxError" => HasTag(issues, "SYNTAX ERROR")
            /\ ParseOutcome(code) \notin {"ok", "SyntaxError"} =>
                  Reports(issues, Finding("none", "Could not parse code",
                                          <<ParseOutcome(code)>>))
            /\ \A k \in 1..Len(dangerous_imports) :
                  (\/ Contains(code, <<"import ", dangerous_imports[k]>>)
                   \/ Contains(code, <<"from ", dangerous_imports[k]>>))
                  => Reports(issues, Finding("SECURITY", "Code tries to import",
                                             <<dangerous_imports[k]>>))
            /\ IF \E k \in 1..Len(dataframes) : Contains(code, <<dataframes[k]>>)
               THEN \E k \in 1..Len(issues) :
                       issues[k].tag = "INFO" /\ issues[k].text = "Using dataframes"
               ELSE Reports(issues,
                            Finding("CRITICAL",
                                    "Code doesn't use any of the available dataframes",
                                    <<>>))
            /\ (\E v \in Range(required_vars) : ~MatchesAssignmentPattern(code, v))
                  => \E k \in 1..Len(issues) :
                        issues[k].text = "Missing required output variables"

\* C20's case: code that cannot be encoded, imports os, uses no dataframe
\* and assigns nothing; the review holds all four findings.
C20_Witness ==
    /\ HasGeneratedCode
    /\ ParseOutcome(generated_code.text) = "UnicodeEncodeError"
    /\ Contains(generated_code.text, <<"import ", "os">>)
    /\ HasTag(validation_issues, "SECURITY")
    /\ Reports(validation_issues,
               Finding("CRITICAL", "Code doesn't use any of the available dataframes", <<>>))
    /\ ReportedMissing(validation_issues) = Range(required_vars)
    /\ \E k \in 1..Len(validation_issues) :
          validation_issues[k].text = "Could not parse code"

\* The same for code that ast.parse rejects with a SyntaxError.
C20_SyntaxErrorCase ==
    /\ HasGeneratedCode
    /\ ParseOutcome(generated_code.text) = "SyntaxError"
    /\ HasTag(validation_issues, "SECURITY") /\ HasTag(validation_issues, "SYNTAX ERROR")
    /\ ReportedMissing(validation_issues) # {}

\* The denylisted modules the statement in tok imports when it runs.
ModulesImportedBy(tok) ==
    IF tok \in {"\nimport os", "\nimport numpy, os", "\nimport os.path",
                "\nfrom os import path"}
    THEN {"os"} ELSE {}

\* The dynamic-execution primitives the statement in tok calls.
PrimitivesCalledBy(tok) == IF tok = "\nx = eval('1')" THEN {"eval"} ELSE {}

\* C21 as stated: every code string that calls eval, exec, compile or
\* __import__, or that imports a denylisted module in whatever import form,
\* gets a security-tagged finding from validate_code.
C21_PrimitivesAndImportsFlagged ==
    (/\ HasGeneratedCode
     /\ \E k \in 1..Len(generated_code.text) :
           ModulesImportedBy(generated_code.text[k])
               \cup PrimitivesCalledBy(generated_code.text[k]) # {})
    => HasTag(validation_issues, "SECURITY")

\* The code is the single statement `import numpy, os` and the review holds
\* no security finding.
C21_ImportListUnflagged ==
    /\ HasGeneratedCode
    /\ generated_code.text = <<"\nimport numpy, os">>
    /\ ~HasTag(validation_issues, "SECURITY")

\* The code is a call of eval and the review holds no security finding.
C21_EvalCallUnflagged ==
    /\ HasGeneratedCode
    /\ generated_code.text = <<"\nx = eval('1')">>
    /\ ~HasTag(validation_issues, "SECURITY")

\* `import os.path` is flagged: its text holds `import os`.
C21_DottedImportFlagged ==
    (/\ HasGeneratedCode
     /\ \E k \in 1..Len(generated_code.text) : generated_code.text[k] = "\nimport os.path")
    => Reports(validation_issues, Finding("SECURITY", "Code tries to import", <<"os">>))

\* The last run rendered the code review (app.py:133-136); the runs of an
\* Execute click render it before they execute.
ReviewShown == ui \in {"review", "results", "error"}

\* code_review.py:31-32: the branch taken for an empty list of findings
ValidationPassedShown == ReviewShown /\ validation_issues = <<>>

UsageEntries ==
    {k \in 1..Len(validation_issues) :
        validation_issues[k].text \in {"Code doesn't use any of the available dataframes",
                                       "Using dataframes"}}

\* C25: for every code string and every set of known table names the list
\* validate_code returns holds at least one entry, the "doesn't use any of
\* the available dataframes" issue or the "Using dataframes" note, so the
\* code review never takes its "Code validation passed" branch.
C25_ValidationNeverPasses ==
    ReviewShown => (UsageEntries # {} /\ ~ValidationPassedShown)

\* C25's case: the code assigns the four identifiers, parses and trips no
\* other check, and no table is known; the usage issue is the only entry.
C25_Witness ==
    /\ ui = "review"
    /\ dataframes = <<>>
    /\ MissingVars(generated_code.text) = <<>>
    /\ validation_issues =
          <<Finding("CRITICAL", "Code doesn't use any of the available dataframes", <<>>)>>

\* C25's other entry: code that uses a table gets the note.
C25_UsingNoteShown ==
    /\ ui = "review"
    /\ \E k \in UsageEntries : validation_issues[k].text = "Using dataframes"
    /\ \A k \in 1..Len(validation_issues) : validation_issues[k].tag \in {"INFO", "NOTE"}

(***************************************************************************)
(* utils/data_utils.py: analyze_query_relevance                            *)
(* Text is kept word by word. A query is the sequence of its whitespace-   *)
(* separated words. A dataframe name df_<w1>_<w2>... is the sequence of    *)
(* the words after the df_ prefix, so that replace('df_', '') and          *)
(* replace('_', ' ') leave those words joined by blanks. A column is       *)
(* [words, sep, numeric]: its name is the words joined by sep ("_" or      *)
(* " "), numeric tells whether select_dtypes(include=['number']) keeps it. *)
(* The words used contain no other word, synonym or aggregation verb as a  *)
(* proper part, so `x in text` is the search for x's words as a contiguous *)
(* run of the text's words.                                                *)
(***************************************************************************)
MaxTables == 3

\* str.lower() on the words used
Lower(w) ==
    CASE w = "Region" -> "region"
      [] w = "Sales" -> "sales"
      [] w = "Total" -> "total"
      [] w = "Columns" -> "columns"
      [] w = "KeyError:" -> "keyerror:"
      [] w = "IndexError:" -> "indexerror:"
      [] w = "TypeError:" -> "typeerror:"
      [] w = "ZeroDivisionError:" -> "zerodivisionerror:"
      [] OTHER -> w

LowerAll(ws) == [k \in 1..Len(ws) |-> Lower(ws[k])]

WordSet(ws) == {ws[k] : k \in 1..Len(ws)}

Column(words, sep, numeric) == [words |-> words, sep |-> sep, numeric |-> numeric]

\* line 216: clean_df_name in query_lower
NameMentioned(q, df_name) == Contains(LowerAll(q), LowerAll(df_name))

\* line 226: col_lower in query_lower; a name joined by "_" is one word that
\* no query word equals
ColumnMentioned(q, col) ==
    /\ Len(col.words) = 1 \/ col.sep = " "
    /\ Contains(LowerAll(q), LowerAll(col.words))

\* lines 223 and 230: len(query_words.intersection(col_words))
WordOverlap(q, col) ==
    Cardinality(WordSet(LowerAll(q)) \cap WordSet(LowerAll(col.words)))

\* lines 234-241
keywords_map ==
    <<{"country", "nation", "destination", "origin"},
      {"product", "item", "commodity", "goods", "hs", "classification"},
      {"value", "amount", "price", "fob", "cost", "total"},
      {"date", "time", "year", "month", "period"},
      {"quantity", "volume", "weight", "units"},
      {"enterprise", "company", "business", "firm", "exporter", "importer"}>>

\* lines 243-246: the keyword groups with a synonym in the query and one in
\* the column name
SharedKeywords(q, col) ==
    {k \in 1..Len(keywords_map) :
        /\ WordSet(LowerAll(q)) \cap keywords_map[k] # {}
        /\ WordSet(LowerAll(col.words)) \cap keywords_map[k] # {}}

\* lines 221-246, one column's contribution
ColumnScore(q, col) ==
    (IF ColumnMentioned(q, col) THEN 50 ELSE 0)
    + WordOverlap(q, col) * 10
    + Cardinality(SharedKeywords(q, col)) * 20

RECURSIVE SumColumnScores(_, _)
SumColumnScores(q, cols) ==
    IF cols = <<>> THEN 0
    ELSE ColumnScore(q, Head(cols)) + SumColumnScores(q, Tail(cols))

\* NumericBonus without lines 248-251: numeric columns earn nothing.
NumericBonus_None(q, t) == 0

\* lines 248-251
NumericBonus(q, t) ==
    IF WordSet(LowerAll(q)) \cap {"total", "sum", "calculate"} # {}
    THEN Cardinality({k \in 1..Len(t.columns) : t.columns[k].numeric}) * 5
    ELSE 0

\* lines 213-253, one dataframe's score
RelevanceScore(q, t) ==
    (IF NameMentioned(q, t.df_name) THEN 100 ELSE 0)
    + SumColumnScores(q, t.columns)
    + NumericBonus(q, t)

\* relevance_scores.items(): (df_name, score) in insertion order
ScoreItems(q, ts) ==
    [k \in 1..Len(ts) |-> [df_name |-> ts[k].df_name, score |-> RelevanceScore(q, ts[k])]]

\* InsertByScore placing x before the items of equal score: ties come out in
\* reverse insertion order.
RECURSIVE InsertByScore_TiesReversed(_, _)
InsertByScore_TiesReversed(sorted, x) ==
    IF sorted = <<>> THEN <<x>>
    ELSE IF Head(sorted).score > x.score
    THEN <<Head(sorted)>> \o InsertByScore_TiesReversed(Tail(sorted), x)
    ELSE <<x>> \o sorted

\* x placed behind every item whose score is at least x's
RECURSIVE InsertByScore(_, _)
InsertByScore(sorted, x) ==
    IF sorted = <<>> THEN <<x>>
    ELSE IF Head(sorted).score >= x.score
    THEN <<Head(sorted)>> \o InsertByScore(Tail(sorted), x)
    ELSE <<x>> \o sorted

\* line 256: sorted(items, key=lambda x: x[1], reverse=True), a stable sort
RECURSIVE SortedByScore(_, _)
SortedByScore(items, k) ==
    IF k = 0 THEN <<>>
    ELSE InsertByScore(SortedByScore(items, k - 1), items[k])

\* line 259: [df_name for df_name, score in sorted_dfs if score > 0]
PositiveItems(items) == SelectFrom(items, {k \in 1..Len(items) : items[k].score > 0}, 1)

DfNames(items) == [k \in 1..Len(items) |-> items[k].df_name]

\* Fallback returning the empty selection.
Fallback_Empty(relevant, ts) == relevant

\* lines 261-263: all dataframes when none scored
Fallback(relevant, ts) ==
    IF relevant = <<>> THEN [k \in 1..Len(ts) |-> ts[k].df_name] ELSE relevant

\* lines 196-265
analyze_query_relevance(q, ts) ==
    LET sorted_dfs == SortedByScore(ScoreItems(q, ts), Len(ts))
    IN  Fallback(DfNames(PositiveItems(sorted_dfs)), ts)

(***************************************************************************)
(* SpecRelevance: the selector applied to queries and table sets drawn     *)
(* from bounded sets.                                                      *)
(***************************************************************************)
QueryInputs ==
    {<<>>, <<"by">>, <<"Sales">>, <<"region">>, <<"total", "amount">>,
     <<"customers", "by", "region">>, <<"total", "sales", "by", "region">>}

DfNameInputs == {<<"sales">>, <<"customers">>, <<"orders">>, <<"regions">>}

ColumnsInputs ==
    {<<>>,
     <<Column(<<"Region">>, "_", FALSE)>>,
     <<Column(<<"region">>, "_", FALSE), Column(<<"total", "amount">>, "_", TRUE)>>,
     <<Column(<<"region">>, "_", FALSE), Column(<<"amount">>, "_", TRUE)>>,
     <<Column(<<"region">>, "_", FALSE), Column(<<"Total", "Sales">>, " ", TRUE),
       Column(<<"sales">>, "_", TRUE)>>}

Table(df_name, columns) == [df_name |-> df_name, columns |-> columns]

\* Table sets: dict keys are unique.
TableSets ==
    {ts \in BoundedSeq({Table(n, c) : n \in DfNameInputs, c \in ColumnsInputs}, MaxTables) :
        \A i, j \in 1..Len(ts) : ts[i].df_name = ts[j].df_name => i = j}

InitRelevance ==
    /\ query \in QueryInputs
    /\ tables \in TableSets
    /\ relevant_dfs = NoValue
    /\ ResultsIdle /\ ExecIdle /\ AppIdle /\ SessionIdle

\* app.py:68: relevant_df_names = analyze_query_relevance(query, dataframes_dict)
Analyze ==
    /\ relevant_dfs = NoValue
    /\ relevant_dfs' = PyList(analyze_query_relevance(query, tables))
    /\ UNCHANGED <<query, tables>>
    /\ UNCHANGED <<resultsVars, execVars, appVars, sessionVars>>

NextRelevance == Analyze

SpecRelevance == InitRelevance /\ [][NextRelevance]_vars

(***************************************************************************)
(* Claims about the relevance selector.                                    *)
(***************************************************************************)
Analyzed == relevant_dfs # NoValue

TableNames == [k \in 1..Len(tables) |-> tables[k].df_name]

\* The score of the table inserted k-th.
ScoreAt(k) == RelevanceScore(query, tables[k])

\* The insertion position of a table name.
PositionOf(name) == CHOOSE k \in 1..Len(tables) : tables[k].df_name = name

AllScoredZero == \A k \in 1..Len(tables) : ScoreAt(k) = 0
AllScoredPositive == \A k \in 1..Len(tables) : ScoreAt(k) > 0

\* a lists every element of b exactly once and nothing else
IsPermutation(a, b) ==
    /\ Len(a) = Len(b)
    /\ WordSet(a) = WordSet(b)
    /\ Cardinality(WordSet(a)) = Len(a)

\* C5 as stated: the result is a permutation of all table names if and only
\* if every table scored zero, and then it is the names in insertion order.
C5_PermutationIffAllZero ==
    Analyzed =>
        /\ IsPermutation(relevant_dfs.items, TableNames) <=> AllScoredZero
        /\ AllScoredZero => relevant_dfs.items = TableNames

\* C5 amended: the result is a permutation of all table names if and only if
\* every table scored zero or every table scored above zero; when every table
\* scored zero it is the names in insertion order.
C5_PermutationIffAllZeroOrAllPositive ==
    Analyzed =>
        /\ IsPermutation(relevant_dfs.items, TableNames)
              <=> (AllScoredZero \/ AllScoredPositive)
        /\ AllScoredZero => relevant_dfs.items = TableNames

\* C5's case: three tables, none scoring, returned in insertion order.
C5_Witness ==
    /\ Analyzed
    /\ Len(tables) = 3
    /\ AllScoredZero
    /\ \E k \in 1..3 : tables[k].columns # <<>>
    /\ relevant_dfs.items = TableNames

\* C6: when some table scores above zero the result is exactly the tables
\* with a positive score, each once, by descending score, equal scores in
\* insertion order; for a non-empty table set the result is never empty.
C6_PositiveTablesSortedStably ==
    Analyzed =>
        /\ (~AllScoredZero) =>
              LET r == relevant_dfs.items
              IN  /\ WordSet(r) = {tables[k].df_name : k \in {j \in 1..Len(tables) : ScoreAt(j) > 0}}
                  /\ Cardinality(WordSet(r)) = Len(r)
                  /\ \A i, j \in 1..Len(r) :
                        i < j =>
                            \/ ScoreAt(PositionOf(r[i])) > ScoreAt(PositionOf(r[j]))
                            \/ /\ ScoreAt(PositionOf(r[i])) = ScoreAt(PositionOf(r[j]))
                               /\ PositionOf(r[i]) < PositionOf(r[j])
        /\ tables # <<>> => relevant_dfs.items # <<>>

\* C6's case: of three tables the zero-scoring one is dropped and the two
\* with equal positive scores are kept in insertion order.
C6_Witness ==
    /\ Analyzed
    /\ Len(tables) = 3
    /\ Len(relevant_dfs.items) = 2
    /\ ScoreAt(PositionOf(relevant_dfs.items[1])) = ScoreAt(PositionOf(relevant_dfs.items[2]))

\* C14's scenario: the query "total sales by region" against df_sales and
\* df_customers (in either insertion order), df_sales having a column region
\* and a numeric column amount.
C14_Scenario ==
    /\ Analyzed
    /\ query = <<"total", "sales", "by", "region">>
    /\ Len(tables) = 2
    /\ WordSet(TableNames) = {<<"sales">>, <<"customers">>}
    /\ LET cols == tables[PositionOf(<<"sales">>)].columns
       IN  /\ \E k \in 1..Len(cols) : cols[k].words = <<"region">>
           /\ \E k \in 1..Len(cols) : cols[k].words = <<"amount">> /\ cols[k].numeric

C14_SalesScore == ScoreAt(PositionOf(<<"sales">>))
C14_CustomersScore == ScoreAt(PositionOf(<<"customers">>))

\* C14 as stated: in the scenario df_sales ranks first whatever columns
\* df_customers has.
C14_SalesFirstWhateverCustomersHas ==
    C14_Scenario => Head(relevant_dfs.items) = <<"sales">>

\* C14 amended: in the scenario df_sales scores at least 185 (100 for its
\* name, 60 for region, 20 and 5 for amount) and df_customers scores only by
\* its columns; df_sales ranks first exactly when df_customers scores less, or
\* the same with df_sales inserted first, so it ranks first whenever the
\* columns of df_customers earn less than 185.
C14_SalesFirstUnlessCustomersOutscores ==
    C14_Scenario =>
        /\ C14_SalesScore >= 185
        /\ Head(relevant_dfs.items) = <<"sales">>
              <=> \/ C14_CustomersScore < C14_SalesScore
                  \/ /\ C14_CustomersScore = C14_SalesScore
                     /\ PositionOf(<<"sales">>) < PositionOf(<<"customers">>)
        /\ C14_CustomersScore < 185 => Head(relevant_dfs.items) = <<"sales">>

\* C14's case: df_customers scores by its Region column, df_sales still ranks
\* first.
C14_Witness ==
    /\ C14_Scenario
    /\ C14_CustomersScore > 0
    /\ relevant_dfs.items = <<<<"sales">>, <<"customers">>>>
    /\ PositionOf(<<"customers">>) = 1

(***************************************************************************)
(* components/results_display.py: render_error                             *)
(* The exception is [cls, message]: its class name and the text str()      *)
(* gives, word by word. For every class here but KeyError str() is the     *)
(* message the exception was raised with; for a KeyError it is the repr of *)
(* the key, in quotes. No class name is part of str().                     *)
(***************************************************************************)
MaxWords == 2

\* Words of exception messages: a quoted key, words of the interpreter's and
\* pandas' own messages, and class names as a message can quote them.
MessageWords ==
    {"'amount'", "Columns", "iloc", "index", "division", "zero", "type(s)",
     "KeyError:", "IndexError:", "TypeError:", "ZeroDivisionError:"}

ErrorClasses == {"KeyError", "IndexError", "TypeError", "ZeroDivisionError", "ValueError"}

ErrorInputs ==
    {[cls |-> c, message |-> m] : c \in ErrorClasses, m \in BoundedSeq(MessageWords, MaxWords)}

\* str(error)
Str(e) == e.message

\* The texts render_error searches for that occur in a lower-case word. The
\* words are joined by blanks, so none of the texts spans two words.
NeedlesIn(lower) ==
    CASE lower = "columns" -> {"column"}
      [] lower = "keyerror:" -> {"keyerror"}
      [] lower = "indexerror:" -> {"indexerror"}
      [] lower = "typeerror:" -> {"typeerror"}
      [] lower = "zerodivisionerror:" -> {"zerodivision"}
      [] lower = "iloc" -> {"iloc"}
      [] OTHER -> {}

\* lines 257-266 with the order of the first two branches exchanged.
Suggest_IndexFirst(error_str) ==
    LET has(text) == \E k \in 1..Len(error_str) : text \in NeedlesIn(error_str[k])
    IN  IF has("indexerror") \/ has("iloc") THEN <<"empty result">>
        ELSE IF has("keyerror") \/ has("column") THEN <<"column name">>
        ELSE IF has("typeerror") THEN <<"type mismatch">>
        ELSE IF has("zerodivision") THEN <<"division by zero">>
        ELSE <<>>

\* lines 257-266: the if/elif chain over error_str; the suggestion shown is
\* named by its subject
Suggest(error_str) ==
    LET has(text) == \E k \in 1..Len(error_str) : text \in NeedlesIn(error_str[k])
    IN  IF has("keyerror") \/ has("column") THEN <<"column name">>
        ELSE IF has("indexerror") \/ has("iloc") THEN <<"empty result">>
        ELSE IF has("typeerror") THEN <<"type mismatch">>
        ELSE IF has("zerodivision") THEN <<"division by zero">>
        ELSE <<>>

\* lines 231-269: render_error(error); line 255: error_str = str(error).lower()
render_error(e) == Suggest(LowerAll(Str(e)))

ErrorIdle == uploaded_files = <<>> /\ st_dataframes = <<>> /\ dataframes_loaded = FALSE
             /\ num_files = 0 /\ st_generated_code = NoValue /\ calls = <<>>

InitError ==
    /\ error \in ErrorInputs
    /\ suggestions = NoValue
    /\ ErrorIdle
    /\ ResultsIdle /\ ExecIdle /\ AppIdle /\ RelIdle

\* app.py:158-159: except Exception as e: render_error(e)
RenderError ==
    /\ suggestions = NoValue
    /\ suggestions' = [type |-> "shown", items |-> render_error(error)]
    /\ UNCHANGED <<error, uploaded_files, st_dataframes, dataframes_loaded, num_files,
                   st_generated_code, calls>>
    /\ UNCHANGED <<resultsVars, execVars, appVars, relVars>>

NextError == RenderError

SpecError == InitError /\ [][NextError]_vars

(***************************************************************************)
(* Claims about the error view.                                            *)
(***************************************************************************)
ErrorRendered == suggestions # NoValue

\* The suggestion written for errors of class cls.
SuggestionFor(cls) ==
    CASE cls = "KeyError" -> <<"column name">>
      [] cls = "IndexError" -> <<"empty result">>
      [] cls = "TypeError" -> <<"type mismatch">>
      [] cls = "ZeroDivisionError" -> <<"division by zero">>
      [] OTHER -> <<>>

\* The lower-case text of the error holds text.
ErrorTextHas(text) ==
    \E k \in 1..Len(error.message) : text \in NeedlesIn(Lower(error.message[k]))

\* C23 as stated: render_error shows at most one suggestion, and a KeyError,
\* IndexError, TypeError or ZeroDivisionError gets the suggestion written for
\* its own kind.
C23_OwnKindSuggested ==
    ErrorRendered =>
        /\ Len(suggestions.items) <= 1
        /\ error.cls \in {"KeyError", "IndexError", "TypeError", "ZeroDivisionError"}
              => suggestions.items = SuggestionFor(error.cls)

\* The part of C23 that holds: at most one suggestion, the first in the
\* order column name, empty result, type mismatch, division by zero whose
\* words occur in the lower-case text of the error.
C23_FirstMatchInOrder ==
    ErrorRendered =>
        /\ Len(suggestions.items) <= 1
        /\ suggestions.items =
              (IF ErrorTextHas("keyerror") \/ ErrorTextHas("column")
               THEN <<"column name">>
               ELSE IF ErrorTextHas("indexerror") \/ ErrorTextHas("iloc")
               THEN <<"empty result">>
               ELSE IF ErrorTextHas("typeerror") THEN <<"type mismatch">>
               ELSE IF ErrorTextHas("zerodivision") THEN <<"division by zero">>
               ELSE <<>>)

\* A KeyError for the key 'amount' gets no suggestion.
C23_KeyErrorUnsuggested ==
    /\ ErrorRendered
    /\ error = [cls |-> "KeyError", message |-> <<"'amount'">>]
    /\ suggestions.items = <<>>

\* A ZeroDivisionError with the interpreter's message gets no suggestion.
C23_ZeroDivisionUnsuggested ==
    /\ ErrorRendered
    /\ error = [cls |-> "ZeroDivisionError", message |-> <<"division", "zero">>]
    /\ suggestions.items = <<>>

\* A ValueError whose message speaks of columns and quotes IndexError gets
\* the column suggestion alone.
C23_FirstOfTwoMatches ==
    /\ ErrorRendered
    /\ error.cls = "ValueError"
    /\ ErrorTextHas("column") /\ ErrorTextHas("indexerror")
    /\ suggestions.items = <<"column name">>

(***************************************************************************)
(* components/sidebar.py: render_sidebar, and app.py: main, on the session *)
(* Every action is one run of the script, started by a widget. A file is   *)
(* [name, readable]: its name piece by piece and whether pd.read_csv reads *)
(* it. Every piece is one of the texts str.replace looks for or holds none *)
(* of them, so a replace acts piece by piece. st.session_state.dataframes  *)
(* is kept as its keys in insertion order. The generated code is           *)
(* [type, tables]; tables is history: the table names the prompt was built *)
(* from. calls is history: [n, raised, tables], the number of executor     *)
(* calls made, whether the last one (or the rendering of its results)      *)
(* raised, and the table names it was given.                               *)
(***************************************************************************)
MaxFiles == 2
MaxExecutions == 2

FileNames ==
    {<<"q1", "-", "sales", ".csv">>, <<"q1", " ", "sales", ".csv">>,
     <<"sales", "(1)", ".csv">>}

\* The files a user can pick: readable ones, and one pd.read_csv fails on.
Files ==
    {[name |-> n, readable |-> TRUE] : n \in FileNames}
        \cup {[name |-> <<"broken", ".csv">>, readable |-> FALSE]}

\* What the uploader can hold: any files, no file twice.
UploadInputs ==
    {fs \in BoundedSeq(Files, MaxFiles) : \A i, j \in 1..Len(fs) : fs[i] = fs[j] => i = j}

\* name.replace(old, new), new given as a sequence of pieces
RECURSIVE Replace(_, _, _)
Replace(name, old, new) ==
    IF name = <<>> THEN <<>>
    ELSE (IF Head(name) = old THEN new ELSE <<Head(name)>>) \o Replace(Tail(name), old, new)

\* sidebar.py:91-92: the dataframe name made from the file's name
DfName(file) ==
    <<"df_">> \o Replace(Replace(Replace(file.name, ".csv", <<>>), "-", <<"_">>), " ", <<"_">>)

\* d[key] = value on the keys of a dict: a new key goes last, a key already
\* there keeps its place
SetKey(keys, key) == IF key \in Range(keys) THEN keys ELSE Append(keys, key)

\* sidebar.py:89-96: the loop over the uploaded files, from file i on, with
\* the keys stored so far; it ends at the first file pd.read_csv fails on
RECURSIVE LoadFiles(_, _, _)
LoadFiles(files, i, keys) ==
    IF i > Len(files) THEN [keys |-> keys, raised |-> FALSE]
    ELSE IF ~files[i].readable THEN [keys |-> keys, raised |-> TRUE]
    ELSE LoadFiles(files, i + 1, SetKey(keys, DfName(files[i])))

NoCalls == [n |-> 0, raised |-> FALSE, tables |-> <<>>]

\* session_state.py:9-18: the session as initialize_session_state leaves it
InitSession ==
    /\ uploaded_files = <<>>
    /\ st_dataframes = <<>>
    /\ dataframes_loaded = FALSE
    /\ num_files = 0
    /\ st_generated_code = NoValue
    /\ calls = NoCalls
    /\ error = NoValue /\ suggestions = NoValue
    /\ ResultsIdle /\ ExecIdle /\ AppIdle /\ RelIdle

\* sidebar.py:69-74: the user changes the files in the uploader
ChooseFiles ==
    /\ \E fs \in UploadInputs : uploaded_files' = fs
    /\ UNCHANGED <<st_dataframes, dataframes_loaded, num_files, st_generated_code, calls,
                   error, suggestions>>
    /\ UNCHANGED <<resultsVars, execVars, appVars, relVars>>

\* sidebar.py:76-115: Load All Data with files in the uploader. The dict is
\* cleared and filled file by file; the flag and the count are set after the
\* loop only, so a failing file leaves them as they were.
ClickLoadAll ==
    /\ uploaded_files # <<>>
    /\ LET loaded == LoadFiles(uploaded_files, 1, <<>>)
       IN  /\ st_dataframes' = loaded.keys
           /\ IF loaded.raised
              THEN UNCHANGED <<dataframes_loaded, num_files>>
              ELSE /\ dataframes_loaded' = TRUE
                   /\ num_files' = Len(uploaded_files)
    /\ UNCHANGED <<uploaded_files, st_generated_code, calls, error, suggestions>>
    /\ UNCHANGED <<resultsVars, execVars, appVars, relVars>>

\* sidebar.py:120 and 133-137: Clear All Data, shown while dataframes_loaded
ClickClearAll ==
    /\ dataframes_loaded
    /\ st_dataframes' = <<>>
    /\ dataframes_loaded' = FALSE
    /\ num_files' = 0
    /\ UNCHANGED <<uploaded_files, st_generated_code, calls, error, suggestions>>
    /\ UNCHANGED <<resultsVars, execVars, appVars, relVars>>

\* app.py:127: the review with its two buttons is rendered
ReviewRendered == dataframes_loaded /\ st_generated_code # NoValue

\* app.py:53-120: the query is analyzed, the query input being shown while
\* dataframes_loaded; the LLM answers and the code is stored
AnalyzeQuery ==
    /\ dataframes_loaded
    /\ st_generated_code' = [type |-> "code", tables |-> st_dataframes]
    /\ UNCHANGED <<uploaded_files, st_dataframes, dataframes_loaded, num_files, calls,
                   error, suggestions>>
    /\ UNCHANGED <<resultsVars, execVars, appVars, relVars>>

\* app.py:138-141: Discard
Discard ==
    /\ ReviewRendered
    /\ st_generated_code' = NoValue
    /\ UNCHANGED <<uploaded_files, st_dataframes, dataframes_loaded, num_files, calls,
                   error, suggestions>>
    /\ UNCHANGED <<resultsVars, execVars, appVars, relVars>>

\* Execute keeping the code after the results were rendered.
Execute_KeepsCode ==
    /\ ReviewRendered
    /\ calls.n < MaxExecutions
    /\ \E raised \in BOOLEAN :
          calls' = [n |-> calls.n + 1, raised |-> raised, tables |-> st_dataframes]
    /\ UNCHANGED st_generated_code
    /\ UNCHANGED <<uploaded_files, st_dataframes, dataframes_loaded, num_files,
                   error, suggestions>>
    /\ UNCHANGED <<resultsVars, execVars, appVars, relVars>>

\* app.py:143-159: Execute Code. execute_generated_code gets the code and
\* st.session_state.dataframes; when it and render_results return the code
\* is deleted, when one of them raises the error is rendered and the code
\* stays.
Execute ==
    /\ ReviewRendered
    /\ calls.n < MaxExecutions
    /\ \E raised \in BOOLEAN :
          /\ calls' = [n |-> calls.n + 1, raised |-> raised, tables |-> st_dataframes]
          /\ st_generated_code' = IF raised THEN st_generated_code ELSE NoValue
    /\ UNCHANGED <<uploaded_files, st_dataframes, dataframes_loaded, num_files,
                   error, suggestions>>
    /\ UNCHANGED <<resultsVars, execVars, appVars, relVars>>

NextSession ==
    ChooseFiles \/ ClickLoadAll \/ ClickClearAll \/ AnalyzeQuery \/ Discard \/ Execute

SpecSession == InitSession /\ [][NextSession]_vars

(***************************************************************************)
(* Claims about the session.                                               *)
(***************************************************************************)
\* The pieces made of letters, digits and underscores only.
IdentifierPieces == {"df_", "_", "sales", "q1", "broken"}

\* name is df_ followed by letters, digits and underscores.
IsSanitized(name) ==
    /\ name # <<>> /\ Head(name) = "df_"
    /\ \A k \in 1..Len(name) : name[k] \in IdentifierPieces

\* C24 as stated: every table name Load All Data stores is df_ followed by
\* letters, digits and underscores only, and two different uploaded files get
\* two different table names.
C24_NamesSanitizedAndDistinct ==
    /\ \A k \in 1..Len(st_dataframes) : IsSanitized(st_dataframes[k])
    /\ \A i, j \in 1..Len(uploaded_files) :
          i # j => DfName(uploaded_files[i]) # DfName(uploaded_files[j])

\* The file sales(1).csv is stored under the name df_sales(1).
C24_ParenthesesKept ==
    /\ dataframes_loaded
    /\ <<"df_", "sales", "(1)">> \in Range(st_dataframes)

\* The files q1-sales.csv and q1 sales.csv were loaded together and the
\* session holds one table, df_q1_sales.
C24_TwoFilesOneName ==
    /\ dataframes_loaded /\ num_files = 2
    /\ {uploaded_files[k].name : k \in 1..Len(uploaded_files)}
          = {<<"q1", "-", "sales", ".csv">>, <<"q1", " ", "sales", ".csv">>}
    /\ st_dataframes = <<<<"df_", "q1", "_", "sales">>>>

\* The executor is called in this step.
ExecutorCalled == calls'.n > calls.n

\* What C28 says of one step.
C28_Step ==
    /\ ExecutorCalled =>
          /\ st_generated_code # NoValue
          /\ dataframes_loaded
          /\ calls'.raised => (st_generated_code' = st_generated_code /\ ReviewRendered')
          /\ ~calls'.raised => st_generated_code' = NoValue
    /\ Discard => st_generated_code' = NoValue
    /\ (st_generated_code # NoValue /\ st_generated_code' = NoValue)
          => (Discard \/ ExecutorCalled)

\* C28: the executor is called only in a run in which generated code is
\* pending and dataframes_loaded is set. When the call and the rendering of
\* its results return, the code is gone from the session; when one of them
\* raises, the code stays and the review with its Execute button is rendered
\* again. Discard removes the code; nothing else does.
C28_PendingCodeLifecycle == [][C28_Step]_vars

\* C28's case: two executions raised and the code is still pending, the
\* review rendered.
C28_Witness ==
    /\ calls.n = 2 /\ calls.raised
    /\ ReviewRendered

\* An execution returned and the code is gone.
C28_RemovedAfterResults ==
    /\ calls.n > 0 /\ ~calls.raised
    /\ st_generated_code = NoValue /\ dataframes_loaded

\* C29 as stated: whenever the review offers Execute for pending code, the
\* tables in the session are the ones the code was generated for.
C29_PendingCodeMatchesTables ==
    ReviewRendered => st_generated_code.tables = st_dataframes

\* Execute is offered for code generated for other tables than the session
\* holds now, after Load All Data with other files.
C29_StaleCodeOffered ==
    /\ ReviewRendered
    /\ st_generated_code.tables # <<>> /\ st_dataframes # <<>>
    /\ Range(st_generated_code.tables) \cap Range(st_dataframes) = {}

\* The executor was called on tables the code was not generated for.
C29_StaleCodeExecuted ==
    /\ calls.n = 1 /\ calls.raised
    /\ st_generated_code # NoValue
    /\ calls.tables # st_generated_code.tables

\* C30 as stated: in every reachable session state dataframes_loaded is set
\* only when the session holds a table, and num_files is the number of tables
\* the session holds.
C30_FlagAndCountMatchTables ==
    /\ dataframes_loaded => st_dataframes # <<>>
    /\ num_files = Len(st_dataframes)

\* After a load that failed on its first file the session holds no table,
\* with dataframes_loaded set and num_files at its old value.
C30_LoadedWithoutTables ==
    /\ dataframes_loaded
    /\ st_dataframes = <<>>
    /\ num_files > 0

\* What holds of the flag and the count: while the flag is unset the count
\* is 0.
C30_UnsetMeansZero ==
    ~dataframes_loaded => num_files = 0

\* A load into a session without data failed on its second file: the flag
\* is unset and the session holds a table.
C30_TableWithoutFlag ==
    /\ ~dataframes_loaded
    /\ st_dataframes # <<>>

====
